---- MODULE Spec2Model ----
(***************************************************************************)
(* Causal-loop-diagram tools: the CGML parser (src/cgml.js), the adjacency *)
(* list and its concat (src/adjacency-list.js), the cycle enumerator and   *)
(* the loop classifier (src/tarjan.js), and the simulator                  *)
(* (src/graph-simulator.js).                                               *)
(*                                                                         *)
(* Text is a sequence of lexemes: one-character strings, plus the two      *)
(* two-character lexemes "->" and "//" ('>' and '/' occur nowhere else).   *)
(* A node name is the sequence of lexemes the parser keeps.                *)
(* Numbers of the simulator are integers counting thousandths (values,     *)
(* targets) and tenths (edgeAlpha); a sum before rounding counts           *)
(* ten-thousandths.                                                        *)
(***************************************************************************)
EXTENDS Integers, Sequences, FiniteSets, TLC

VARIABLES graphs, nextId, concats, last, cgmlText, otherText, config, loops,
          sim, answer, sample, running

vars ==
  <<graphs, nextId, concats, last, cgmlText, otherText, config, loops, sim,
    answer, sample, running>>

(***************************************************************************)
(* Bounds.                                                                 *)
(***************************************************************************)
\* lines of a description given to parseCGML in the graph lifecycle
MaxLines == 2
\* concat calls in one behaviour of the graph lifecycle
MaxConcats == 2
\* lines of a description whose loops are analysed
MaxLoopLines == 3
\* lines of a description that is simulated
MaxSimLines == 2
\* run() calls on one simulator
MaxRuns == 2
\* lexemes of the line that parseCGML is tried on
MaxLineLen == 5
\* run() calls on the simulator of the three-node loop
MaxTraceRuns == 3
\* lexemes before the arrow of the line whose polarity is parsed
MaxLeftLen == 4

MaxArrayLen == 4

MaxMergeLines == 2

MaxOrderLines == 3

MaxObjectLines == 2

MaxCalls == 2

MaxExtraEdges == 3

\* the graph variables of a caller
Slots == {1, 2}

(***************************************************************************)
(* JavaScript values.                                                      *)
(***************************************************************************)
\* the value undefined, as it appears among names: no text equals it
Undefined == <<"#undefined">>

\* a variable that holds no AdjacencyList
NoGraph == [id |-> 0, nodes |-> <<>>]

(***************************************************************************)
(* String primitives used by the parser.                                   *)
(***************************************************************************)
IsWs(c) == c \in {" ", "\n"}

RECURSIVE TrimStart(_)
TrimStart(s) ==
  IF s = <<>> THEN s
  ELSE IF IsWs(Head(s)) THEN TrimStart(Tail(s)) ELSE s

RECURSIVE TrimEnd(_)
TrimEnd(s) ==
  IF s = <<>> THEN s
  ELSE IF IsWs(s[Len(s)]) THEN TrimEnd(SubSeq(s, 1, Len(s) - 1)) ELSE s

\* String.prototype.trim
Trim(s) == TrimEnd(TrimStart(s))

\* String.prototype.split with a one-lexeme separator
RECURSIVE Split(_, _)
Split(s, sep) ==
  IF \A i \in 1..Len(s) : s[i] # sep THEN <<s>>
  ELSE LET i == CHOOSE k \in 1..Len(s) :
                  s[k] = sep /\ \A m \in 1..(k - 1) : s[m] # sep
       IN <<SubSeq(s, 1, i - 1)>> \o Split(SubSeq(s, i + 1, Len(s)), sep)

StartsWith(s, c) == Len(s) > 0 /\ s[1] = c

Includes(s, c) == \E k \in 1..Len(s) : s[k] = c

EndsWith(s, c) == Len(s) > 0 /\ s[Len(s)] = c

\* the text of a description: its lines joined by newlines
RECURSIVE JoinLines(_)
JoinLines(lines) ==
  IF lines = <<>> THEN <<>>
  ELSE IF Len(lines) = 1 THEN lines[1]
  ELSE lines[1] \o <<"\n">> \o JoinLines(Tail(lines))

(***************************************************************************)
(* Node, Edge (src/adjacency-list.js).                                     *)
(***************************************************************************)
NewNode == [name |-> <<>>, label |-> <<>>, adjacentEdges |-> <<>>,
            subgraphs |-> <<>>]

NewEdge == [targetName |-> <<>>, isOpposite |-> FALSE, label |-> <<>>]

EdgeCloneWithoutPolarity(e) ==
  [targetName |-> e.targetName, isOpposite |-> FALSE, label |-> e.label]

EdgeClone(e) ==
  [targetName |-> e.targetName, isOpposite |-> e.isOpposite,
   label |-> e.label]

NodeCloneWithoutSubgraphs(n) ==
  [name |-> n.name, label |-> n.label,
   adjacentEdges |-> [i \in 1..Len(n.adjacentEdges) |->
                        EdgeClone(n.adjacentEdges[i])],
   subgraphs |-> <<>>]

NodeClone(n) ==
  [name |-> n.name, label |-> n.label,
   adjacentEdges |-> [i \in 1..Len(n.adjacentEdges) |->
                        EdgeClone(n.adjacentEdges[i])],
   subgraphs |-> n.subgraphs]

\* index of the first node named name, 0 for null
findNodeByName(nodes, name) ==
  IF \E i \in 1..Len(nodes) : nodes[i].name = name
  THEN CHOOSE i \in 1..Len(nodes) :
         nodes[i].name = name /\ \A j \in 1..(i - 1) : nodes[j].name # name
  ELSE 0

\* zero-based index of the first node named name, -1 when there is none
findNodeIndexByName(nodes, name) == findNodeByName(nodes, name) - 1

\* the property e.name read at adjacency-list.js:32; an Edge has the fields
\* targetName, isOpposite and label only
EdgeNameProperty(e) == Undefined

(***************************************************************************)
(* AdjacencyList.concat.  The state of the loop is the destination's node  *)
(* list and whether a TypeError was thrown (otherTarget null at line 43).  *)
(***************************************************************************)
\* an edge is added only together with its target node
ConcatEdgeWithNewTarget(st, k, edge, otherNodes) ==
  IF st.threw THEN st
  ELSE
    LET nodes == st.nodes
        otherTarget == findNodeByName(otherNodes, edge.targetName)
        thisTarget == findNodeByName(nodes, edge.targetName)
    IN IF thisTarget # 0 THEN st
       ELSE IF otherTarget = 0 THEN [st EXCEPT !.threw = TRUE]
       ELSE [st EXCEPT !.nodes =
               [Append(nodes,
                       [NodeClone(otherNodes[otherTarget])
                          EXCEPT !.adjacentEdges = <<>>])
                  EXCEPT ![k].adjacentEdges = Append(@, EdgeClone(edge))]]

\* lines 28-59, one edge of otherSource; k is the index of thisSource
ConcatEdge(st, k, edge, otherNodes) ==
  IF st.threw THEN st
  ELSE
    LET nodes == st.nodes
        otherTargetName == edge.targetName
        otherTarget == findNodeByName(otherNodes, edge.targetName)
        adjEdgeNames == [i \in 1..Len(nodes[k].adjacentEdges) |->
                           EdgeNameProperty(nodes[k].adjacentEdges[i])]
        isPresent == \E i \in 1..Len(adjEdgeNames) :
                        adjEdgeNames[i] = otherTargetName
        thisTarget == findNodeByName(nodes, otherTargetName)
    IN IF isPresent THEN st
       ELSE IF thisTarget = 0 /\ otherTarget = 0
       THEN [st EXCEPT !.threw = TRUE]
       ELSE
         LET withTarget ==
               IF thisTarget = 0
               THEN Append(nodes,
                      [NodeClone(otherNodes[otherTarget])
                         EXCEPT !.adjacentEdges = <<>>])
               ELSE nodes
         IN [st EXCEPT !.nodes =
               [withTarget EXCEPT ![k].adjacentEdges =
                  Append(@, EdgeClone(edge))]]

RECURSIVE ConcatEdges(_, _, _, _)
ConcatEdges(st, k, edges, otherNodes) ==
  IF edges = <<>> THEN st
  ELSE ConcatEdges(ConcatEdge(st, k, Head(edges), otherNodes), k,
                   Tail(edges), otherNodes)

\* a source that is not found is put in front of the nodes
ConcatSourcePrepending(st, otherSource, otherNodes) ==
  IF st.threw THEN st
  ELSE
    LET thisSource == findNodeByName(st.nodes, otherSource.name)
    IN IF thisSource = 0
       THEN [st EXCEPT !.nodes = <<NodeClone(otherSource)>> \o @]
       ELSE ConcatEdges(st, thisSource, otherSource.adjacentEdges,
                        otherNodes)

\* lines 16-61, one node of otherAL
ConcatSource(st, otherSource, otherNodes) ==
  IF st.threw THEN st
  ELSE
    LET thisSource == findNodeByName(st.nodes, otherSource.name)
    IN IF thisSource = 0
       THEN [st EXCEPT !.nodes = Append(@, NodeClone(otherSource))]
       ELSE ConcatEdges(st, thisSource, otherSource.adjacentEdges,
                        otherNodes)

RECURSIVE ConcatSources(_, _, _)
ConcatSources(st, sources, otherNodes) ==
  IF sources = <<>> THEN st
  ELSE ConcatSources(ConcatSource(st, Head(sources), otherNodes),
                     Tail(sources), otherNodes)

\* this.concat(otherAL) for two different objects
concat(thisNodes, otherNodes) ==
  ConcatSources([nodes |-> thisNodes, threw |-> FALSE], otherNodes,
                otherNodes)

keepSubgraphs(nodes, id) == nodes

\* flattenSubgraphs, lines 86-88
flattenSubgraphs(nodes, id) ==
  [i \in 1..Len(nodes) |-> [nodes[i] EXCEPT !.subgraphs = <<id>>]]

\* the constant of line 1; graph ids are positive
NO_SUBGRAPH_ID == -1

\* lines 103-104
SubgraphIdOf(node) ==
  IF Len(node.subgraphs) > 0 THEN node.subgraphs[1] ELSE NO_SUBGRAPH_ID

PartitionPushResetting(partition, subgraphId, p) ==
  IF \E g \in 1..Len(partition) : partition[g].key = subgraphId
  THEN [g \in 1..Len(partition) |->
          IF partition[g].key = subgraphId
          THEN [partition[g] EXCEPT !.members = <<p>>]
          ELSE partition[g]]
  ELSE Append(partition, [key |-> subgraphId, members |-> <<p>>])

\* lines 106-109: the object partition as the sequence of its keys in the
\* order they were created, each with its array of nodes (as positions)
PartitionPush(partition, subgraphId, p) ==
  IF \E g \in 1..Len(partition) : partition[g].key = subgraphId
  THEN [g \in 1..Len(partition) |->
          IF partition[g].key = subgraphId
          THEN [partition[g] EXCEPT !.members = Append(@, p)]
          ELSE partition[g]]
  ELSE Append(partition, [key |-> subgraphId, members |-> <<p>>])

RECURSIVE PartitionNodes(_, _, _)
\* the loop of lines 102-110
PartitionNodes(partition, nodes, p) ==
  IF p > Len(nodes) THEN partition
  ELSE PartitionNodes(PartitionPush(partition, SubgraphIdOf(nodes[p]), p),
                      nodes, p + 1)

\* Object.values of an object whose keys are uuid strings or NO_SUBGRAPH,
\* none of them an array index: the values in the order the keys were created
ObjectValues(partition) ==
  [g \in 1..Len(partition) |-> partition[g].members]

\* partitionSubgraphs, lines 100-113
partitionSubgraphs(nodes) == ObjectValues(PartitionNodes(<<>>, nodes, 1))

(***************************************************************************)
(* The parser (src/cgml.js).                                               *)
(***************************************************************************)
\* the regular expression /(.*?)(\((.*)\))/ : the first "(" that a ")"
\* follows, and the last ")"
parseNodeName(str) ==
  LET opens == {i \in 1..Len(str) :
                  str[i] = "(" /\ \E j \in (i + 1)..Len(str) : str[j] = ")"}
  IN IF opens = {}
     THEN [NewNode EXCEPT !.name = Trim(str), !.label = Trim(str)]
     ELSE
       LET open == CHOOSE i \in opens : \A j \in opens : i <= j
           close == CHOOSE j \in 1..Len(str) :
                      str[j] = ")" /\ \A m \in (j + 1)..Len(str) : str[m] # ")"
       IN [NewNode EXCEPT !.name = Trim(SubSeq(str, open + 1, close - 1)),
                          !.label = Trim(SubSeq(str, 1, open - 1))]

parseCGMLLineSourceOnly(line) ==
  IF StartsWith(Trim(line), "//") THEN [threw |-> FALSE, nodes |-> <<>>]
  ELSE IF Trim(line) = <<>> THEN [threw |-> FALSE, nodes |-> <<>>]
  ELSE
    LET split == Split(Split(line, "//")[1], "->")
    IN IF Len(split) # 2 THEN [threw |-> TRUE, nodes |-> <<>>]
       ELSE
         LET left0 == split[1]
             left1 == IF EndsWith(left0, "o") \/ EndsWith(left0, "-")
                      THEN SubSeq(left0, 1, Len(left0) - 1)
                      ELSE left0
             edge == [NewEdge EXCEPT
                        !.targetName = parseNodeName(Trim(split[2])).name,
                        !.isOpposite = EndsWith(left0, "o")]
         IN [threw |-> FALSE,
             nodes |-> <<[parseNodeName(Trim(left1))
                            EXCEPT !.adjacentEdges = <<edge>>]>>]

\* parseCGMLLine: the node list of the returned AdjacencyList, or threw
parseCGMLLine(line) ==
  IF StartsWith(Trim(line), "//") THEN [threw |-> FALSE, nodes |-> <<>>]
  ELSE IF Trim(line) = <<>> THEN [threw |-> FALSE, nodes |-> <<>>]
  ELSE
    LET parts == Split(line, "//")
        nodeText == parts[1]
        edgeLabel == IF Len(parts) >= 2 THEN Trim(parts[2]) ELSE <<>>
        split == Split(nodeText, "->")
    IN IF Len(split) # 2 THEN [threw |-> TRUE, nodes |-> <<>>]
       ELSE
         LET left0 == split[1]
             isOpposite == EndsWith(left0, "o")
             left1 == IF EndsWith(left0, "o") \/ EndsWith(left0, "-")
                      THEN SubSeq(left0, 1, Len(left0) - 1)
                      ELSE left0
             left == Trim(left1)
             right == Trim(split[2])
             source == parseNodeName(left)
             target == parseNodeName(right)
             edge == [NewEdge EXCEPT !.targetName = target.name,
                                     !.isOpposite = isOpposite,
                                     !.label = edgeLabel]
         IN [threw |-> FALSE,
             nodes |-> <<[source EXCEPT !.adjacentEdges = <<edge>>],
                         target>>]

RECURSIVE ParseLinesSkippingBadLines(_, _)
ParseLinesSkippingBadLines(st, lines) ==
  IF lines = <<>> THEN st
  ELSE LET subGraph == parseCGMLLine(Head(lines))
       IN IF subGraph.threw THEN ParseLinesSkippingBadLines(st, Tail(lines))
          ELSE ParseLinesSkippingBadLines(
                 ConcatSources(st, subGraph.nodes, subGraph.nodes),
                 Tail(lines))

\* the loop of parseCGML over the lines, lines 22-25
RECURSIVE ParseLines(_, _)
ParseLines(st, lines) ==
  IF lines = <<>> \/ st.threw THEN st
  ELSE LET subGraph == parseCGMLLine(Head(lines))
       IN IF subGraph.threw THEN [st EXCEPT !.threw = TRUE]
          ELSE ParseLines(ConcatSources(st, subGraph.nodes, subGraph.nodes),
                          Tail(lines))

\* parseCGML(cgml) with id the uuid of the new AdjacencyList
parseCGML(cgml, id) ==
  LET st == ParseLines([nodes |-> <<>>, threw |-> FALSE],
                       Split(Trim(cgml), "\n"))
  IN IF st.threw THEN [threw |-> TRUE, graph |-> NoGraph]
     ELSE [threw |-> FALSE,
           graph |-> [id |-> id, nodes |-> flattenSubgraphs(st.nodes, id)]]

(***************************************************************************)
(* The cycle enumerator (src/tarjan.js).  Vertices are zero-based as in    *)
(* the code; row v of the numeric graph is G[v + 1].                       *)
(***************************************************************************)
adjacencyListToNumericGraph(nodes) ==
  [i \in 1..Len(nodes) |->
     [j \in 1..Len(nodes[i].adjacentEdges) |->
        findNodeIndexByName(nodes, nodes[i].adjacentEdges[j].targetName)]]

\* $point_stack.join('|')
RECURSIVE JoinBar(_)
JoinBar(stack) ==
  IF stack = <<>> THEN <<>>
  ELSE IF Len(stack) = 1 THEN <<ToString(stack[1])>>
  ELSE <<ToString(stack[1]), "|">> \o JoinBar(Tail(stack))

\* an array that records every key it is given, repeated keys included
AppendKey(cycles, key) == Append(cycles, key)

\* $cycles[key] = true on the array $cycles: the keys in insertion order
SetKey(cycles, key) ==
  IF \E i \in 1..Len(cycles) : cycles[i] = key THEN cycles
  ELSE Append(cycles, key)

\* the key of the cycle recorded at line 110
CycleKeyOfMarkedStack(T) == JoinBar(T.marked_stack)

CycleKey(T) == JoinBar(T.point_stack)

PopKeepMarked(T) ==
  [T EXCEPT !.marked_stack = SubSeq(@, 1, Len(@) - 1)]

\* $marked[$marked_stack.pop()] = false
PopUnmark(T) ==
  [T EXCEPT !.marked[T.marked_stack[Len(T.marked_stack)] + 1] = FALSE,
            !.marked_stack = SubSeq(@, 1, Len(@) - 1)]

\* lines 124-128
RECURSIVE Unwind(_, _)
Unwind(T, v) ==
  IF T.marked_stack[Len(T.marked_stack)] # v THEN Unwind(PopUnmark(T), v)
  ELSE PopUnmark(T)

\* line 117: $f.length and $t.length are undefined for the booleans $f and
\* $t, and undefined !== 0 holds
LengthNotZero(f, t) == TRUE

RECURSIVE js_tarjan(_, _, _)
RECURSIVE js_tarjan_forEach(_, _, _, _)
\* the callback of forEach, lines 104-121, over the rest ws of the row
js_tarjan_forEach(T, s, ws, f) ==
  IF ws = <<>> THEN [T |-> T, f |-> f]
  ELSE
    LET w == Head(ws)
    IN IF w < s
       THEN js_tarjan_forEach(
              IF w >= 0 THEN [T EXCEPT !.G[w + 1] = <<>>] ELSE T,
              s, Tail(ws), f)
       ELSE IF w = s
       THEN js_tarjan_forEach(
              [T EXCEPT !.cycles = SetKey(@, CycleKey(T))],
              s, Tail(ws), TRUE)
       ELSE IF T.marked[w + 1] = FALSE
       THEN LET r == js_tarjan(T, s, w)
            IN js_tarjan_forEach(r.T, s, Tail(ws),
                                 IF LengthNotZero(f, r.f) THEN TRUE ELSE f)
       ELSE js_tarjan_forEach(T, s, Tail(ws), f)

js_tarjan(T, s, v) ==
  LET T1 == [T EXCEPT !.marked[v + 1] = TRUE,
                      !.marked_stack = Append(@, v),
                      !.point_stack = Append(@, v)]
      r == js_tarjan_forEach(T1, s, T1.G[v + 1], FALSE)
      T2 == IF r.f = TRUE THEN Unwind(r.T, v) ELSE r.T
  IN [T |-> [T2 EXCEPT !.point_stack = SubSeq(@, 1, Len(@) - 1)],
      f |-> r.f]

\* lines 78-80
RECURSIVE UnmarkAll(_)
UnmarkAll(T) ==
  IF Len(T.marked_stack) > 0 THEN UnmarkAll(PopUnmark(T)) ELSE T

\* the loop of js_tarjan_entry over the rows, lines 76-82
RECURSIVE js_tarjan_rows(_, _)
js_tarjan_rows(T, i) ==
  IF i >= Len(T.G) THEN T
  ELSE js_tarjan_rows(UnmarkAll(js_tarjan(T, i, i).T), i + 1)

\* a key that is an array index: a single vertex number
IsIndexKey(key) == Len(key) = 1

IndexOfKey(piece, n) ==
  IF \E i \in 0..(n - 1) : <<ToString(i)>> = piece
  THEN CHOOSE i \in 0..(n - 1) : <<ToString(i)>> = piece
  ELSE -1

\* Object.keys of the array $cycles: the index keys in ascending order, then
\* the other keys in insertion order
RECURSIVE SelectKeys(_, _)
SelectKeys(cycles, indexKeys) ==
  IF cycles = <<>> THEN <<>>
  ELSE IF IsIndexKey(Head(cycles)) = indexKeys
       THEN <<Head(cycles)>> \o SelectKeys(Tail(cycles), indexKeys)
       ELSE SelectKeys(Tail(cycles), indexKeys)

RECURSIVE AscendingKeys(_, _, _)
AscendingKeys(keys, i, n) ==
  IF i >= n THEN <<>>
  ELSE (IF \E k \in 1..Len(keys) : keys[k] = <<ToString(i)>>
        THEN <<(<<ToString(i)>>)>> ELSE <<>>)
       \o AscendingKeys(keys, i + 1, n)

ObjectKeys(cycles, n) ==
  AscendingKeys(SelectKeys(cycles, TRUE), 0, n) \o SelectKeys(cycles, FALSE)

js_tarjan_entry(G) ==
  LET T0 == [G |-> G, cycles |-> <<>>,
             marked |-> [x \in 1..Len(G) |-> FALSE],
             marked_stack |-> <<>>, point_stack |-> <<>>]
  IN ObjectKeys(js_tarjan_rows(T0, 0).cycles, Len(G))

tarjanVacilando(numAdjList) == js_tarjan_entry(numAdjList)

\* tarjanSCC: each cycle is the list of the nodes it visits; a Node object is
\* named by its position in adjList.nodes (0 for undefined)
tarjanSCC(nodes) ==
  LET numAdjList == adjacencyListToNumericGraph(nodes)
      cycles == tarjanVacilando(numAdjList)
      cycleInds == [c \in 1..Len(cycles) |-> Split(cycles[c], "|")]
  IN [c \in 1..Len(cycleInds) |->
        [p \in 1..Len(cycleInds[c]) |->
           IndexOfKey(cycleInds[c][p], Len(nodes)) + 1]]

(***************************************************************************)
(* CausalGraph.analyzeLoops and CausalLoop (src/tarjan.js:165-202 and      *)
(* 294-317).  An Edge object is named by its owner and its position in the *)
(* owner's adjacentEdges.                                                  *)
(***************************************************************************)
\* the first edge of node whatever its target, 0 for null
FirstEdge(nodes, node, nextNode) ==
  IF nodes[node].adjacentEdges = <<>> THEN 0 ELSE 1

\* lines 183-189: position of the first edge of node to nextNode, 0 for null
FirstEdgeTo(nodes, node, nextNode) ==
  LET edges == nodes[node].adjacentEdges
      hits == {i \in 1..Len(edges) :
                 edges[i].targetName = nodes[nextNode].name}
  IN IF hits = {} THEN 0
     ELSE CHOOSE i \in hits : \A j \in hits : i <= j

\* the first edge of every node of the cycle, 0 for a node without edges
LoopFirstEdges(nodes, cycle) ==
  [ind \in 1..Len(cycle) |->
     IF nodes[cycle[ind]].adjacentEdges = <<>> THEN 0 ELSE 1]

\* lines 172-199 for one cycle: the edge of every node, 0 where none is found
LoopEdges(nodes, cycle) ==
  [ind \in 1..Len(cycle) |->
     FirstEdgeTo(nodes, cycle[ind], cycle[(ind % Len(cycle)) + 1])]

isBalancingWhenEven(nodes, loop) ==
  LET oppositeEdges ==
        SelectSeq([i \in 1..Len(loop.edges) |->
                     nodes[loop.nodes[i]].adjacentEdges[loop.edges[i]]],
                  LAMBDA edge : edge.isOpposite)
  IN Len(oppositeEdges) % 2 = 0

\* CausalLoop.isBalancing, lines 310-313
isBalancing(nodes, loop) ==
  LET oppositeEdges ==
        SelectSeq([i \in 1..Len(loop.edges) |->
                     nodes[loop.nodes[i]].adjacentEdges[loop.edges[i]]],
                  LAMBDA edge : edge.isOpposite)
  IN Len(oppositeEdges) % 2 # 0

\* CausalLoop.type, lines 306-308
CausalLoopType(nodes, loop) ==
  IF isBalancing(nodes, loop) THEN "BALANCING" ELSE "REINFORCING"

\* analyzeLoops: the cycles of tarjanSCC, the loops built from them with the
\* value of their type getter, and whether 'Could not find edge' was thrown
analyzeLoops(nodes) ==
  LET cycles == tarjanSCC(nodes)
      edgesOf == [c \in 1..Len(cycles) |-> LoopEdges(nodes, cycles[c])]
      threw == \E c \in 1..Len(cycles) :
                 \E i \in 1..Len(edgesOf[c]) : edgesOf[c][i] = 0
  IN [given |-> TRUE, threw |-> threw, cycles |-> cycles,
      list |-> IF threw THEN <<>>
               ELSE [c \in 1..Len(cycles) |->
                       LET cl == [nodes |-> cycles[c], edges |-> edgesOf[c]]
                       IN [nodes |-> cl.nodes, edges |-> cl.edges,
                           type |-> CausalLoopType(nodes, cl)]]]

(***************************************************************************)
(* CausalGraph.analyzeLoops and CausalLoop of src/causal-graph.js, whose   *)
(* test at line 36 is the assignment edge.targetName = nextNode.name.      *)
(***************************************************************************)
\* lines 35-41 for one node of a cycle: the edges are visited in order, each
\* visited edge gets targetName = nextNode.name, and the first edge for
\* which the assigned name is truthy (not '') is taken; edge 0 is null
AssignEdgeTo(nodes, node, nextNode) ==
  LET name == nodes[nextNode].name
      edges == nodes[node].adjacentEdges
  IN IF edges = <<>> THEN [nodes |-> nodes, edge |-> 0]
     ELSE IF name # <<>>
     THEN [nodes |-> [nodes EXCEPT ![node].adjacentEdges[1].targetName = name],
           edge |-> 1]
     ELSE [nodes |-> [nodes EXCEPT ![node].adjacentEdges =
                        [e \in 1..Len(edges) |->
                           [edges[e] EXCEPT !.targetName = name]]],
           edge |-> 0]

\* lines 30-49 for one cycle from position ind on; st carries the nodes, the
\* edges found so far and whether line 46 threw
RECURSIVE AssignLoopEdges(_, _, _)
AssignLoopEdges(st, cycle, ind) ==
  IF st.threw \/ ind > Len(cycle) THEN st
  ELSE LET r == AssignEdgeTo(st.nodes, cycle[ind],
                             cycle[(ind % Len(cycle)) + 1])
       IN AssignLoopEdges([nodes |-> r.nodes,
                           edges |-> Append(st.edges, r.edge),
                           threw |-> r.edge = 0],
                          cycle, ind + 1)

\* lines 23-52 over the cycles from position c on
RECURSIVE AssignLoops(_, _, _)
AssignLoops(st, cycles, c) ==
  IF st.threw \/ c > Len(cycles) THEN st
  ELSE LET r == AssignLoopEdges([nodes |-> st.nodes, edges |-> <<>>,
                                 threw |-> FALSE], cycles[c], 1)
       IN AssignLoops([nodes |-> r.nodes,
                       out |-> Append(st.out, [nodes |-> cycles[c],
                                               edges |-> r.edges]),
                       threw |-> r.threw],
                      cycles, c + 1)

\* the type getter, lines 120-127
CausalLoopTypeGetter(nodes, loop) ==
  LET oppositeEdges ==
        SelectSeq([i \in 1..Len(loop.edges) |->
                     nodes[loop.nodes[i]].adjacentEdges[loop.edges[i]]],
                  LAMBDA edge : edge.isOpposite)
  IN IF Len(oppositeEdges) % 2 = 0 THEN "REINFORCING" ELSE "BALANCING"

\* analyzeLoops, lines 17-54: the nodes as the call leaves them and what it
\* returns, with the value of each loop's type getter
analyzeLoopsAssigning(nodes) ==
  LET cycles == tarjanSCC(nodes)
      st == AssignLoops([nodes |-> nodes, out |-> <<>>, threw |-> FALSE],
                        cycles, 1)
  IN [nodes |-> st.nodes,
      result |->
        [given |-> TRUE, threw |-> st.threw, cycles |-> cycles,
         list |-> IF st.threw THEN <<>>
                  ELSE [c \in 1..Len(st.out) |->
                          [nodes |-> st.out[c].nodes,
                           edges |-> st.out[c].edges,
                           type |-> CausalLoopTypeGetter(st.nodes,
                                                         st.out[c])]]]]

(***************************************************************************)
(* The simulator (src/graph-simulator.js).  A plain object is a function   *)
(* from its own keys; a key it does not own is looked up in                *)
(* Object.prototype.                                                       *)
(***************************************************************************)
\* 0.1, in tenths
DEFAULT_EDGE_ALPHA == 1

\* 1, in thousandths
DEFAULT_INITIAL_VALUE == 1000

\* the result of arithmetic on undefined (line 66), outside every value
NaN == -1000000

\* names of properties every plain object inherits
ObjectPrototypeKeys ==
  {<<"c", "o", "n", "s", "t", "r", "u", "c", "t", "o", "r">>,
   <<"t", "o", "S", "t", "r", "i", "n", "g">>}

EmptyObject == [k \in {} |-> 0]

\* obj[key] === undefined
IsUndefinedIn(obj, key) ==
  key \notin DOMAIN obj /\ key \notin ObjectPrototypeKeys

\* obj[key] || dflt, for a key that Object.prototype does not define
OrDefault(obj, key, dflt) ==
  IF key \in DOMAIN obj /\ obj[key] # 0 /\ obj[key] # NaN THEN obj[key]
  ELSE dflt

LastIndexOfTarget(edges, nodeName) ==
  LET hit == {e \in 1..Len(edges) : edges[e].targetName = nodeName}
  IN IF hit = {} THEN 0 ELSE CHOOSE e \in hit : \A f \in hit : f <= e

\* adjacentEdgeNames.indexOf(nodeName), lines 128-130: the position of the
\* first edge to nodeName, 0 (for -1) when there is none
IndexOfTarget(edges, nodeName) ==
  LET hit == {e \in 1..Len(edges) : edges[e].targetName = nodeName}
  IN IF hit = {} THEN 0 ELSE CHOOSE e \in hit : \A f \in hit : e <= f

findInboundAdjacentNodesWithoutThrow(nodes, nodeName) ==
  LET node == findNodeByName(nodes, nodeName)
      ind(p) == IndexOfTarget(nodes[p].adjacentEdges, nodeName)
      sources == SelectSeq([p \in 1..Len(nodes) |-> p],
                           LAMBDA p : p # node /\ ind(p) # 0)
  IN [threw |-> FALSE,
      out |-> [i \in 1..Len(sources) |-> <<sources[i], ind(sources[i])>>]]

\* AdjacencyList.findInboundAdjacentNodes: the pairs <<node, edge>> as
\* positions, in the order of the node list; threw when no node is named
\* nodeName
findInboundAdjacentNodes(nodes, nodeName) ==
  LET node == findNodeByName(nodes, nodeName)
      ind(p) == IndexOfTarget(nodes[p].adjacentEdges, nodeName)
      sources == SelectSeq([p \in 1..Len(nodes) |-> p],
                           LAMBDA p : p # node /\ ind(p) # 0)
  IN IF node = 0 THEN [threw |-> TRUE, out |-> <<>>]
     ELSE [threw |-> FALSE,
           out |-> [i \in 1..Len(sources) |-> <<sources[i], ind(sources[i])>>]]

\* the constructor, lines 22-49
GraphSimulatorSimple(slot, nodes, cfg) ==
  LET names == {nodes[i].name : i \in 1..Len(nodes)}
      values == [n \in names |->
                   OrDefault(cfg.initialValues, n, DEFAULT_INITIAL_VALUE)]
      badInitial == \E k \in DOMAIN cfg.initialValues :
                      IsUndefinedIn(values, k)
      badTarget == \E k \in DOMAIN cfg.targets : IsUndefinedIn(values, k)
  IN IF badInitial \/ badTarget
     THEN [threw |-> TRUE, sim |-> [exists |-> FALSE]]
     ELSE [threw |-> FALSE,
           sim |-> [exists |-> TRUE, graph |-> slot,
                    edgeAlpha |-> cfg.edgeAlpha,
                    values |-> values,
                    history |-> [n \in names |-> <<values[n]>>],
                    targets |-> cfg.targets,
                    runs |-> 0]]

\* Number(x.toFixed(1)) in the same units
ToFixed1(x, up) ==
  IF x = NaN THEN NaN
  ELSE LET lower == (x \div 1000) * 100
           rest == x % 1000
       IN IF rest < 500 THEN lower
          ELSE IF rest > 500 THEN lower + 100
          ELSE IF up THEN lower + 100 ELSE lower

\* Number(x.toFixed(2)) for x in ten-thousandths, the result in thousandths:
\* the nearest hundredth; when x lies midway between two hundredths the
\* binary value of x decides, so either neighbour can result (up chooses)
ToFixed2(x, up) ==
  IF x = NaN THEN NaN
  ELSE LET lower == (x \div 100) * 10
           rest == x % 100
       IN IF rest < 50 THEN lower
          ELSE IF rest > 50 THEN lower + 10
          ELSE IF up THEN lower + 10 ELSE lower

DeltaFromNewValues(s, nodes, pair) ==
  LET inboundNode == nodes[pair[1]]
      edge == inboundNode.adjacentEdges[pair[2]]
      target == OrDefault(s.targets, inboundNode.name, 0)
      oppositeMul == IF edge.isOpposite THEN -1 ELSE 1
  IN IF inboundNode.name \notin DOMAIN s.newValues
        \/ s.newValues[inboundNode.name] = NaN
     THEN NaN
     ELSE (s.newValues[inboundNode.name] - target) * s.edgeAlpha * oppositeMul

\* line 66, in ten-thousandths; the source's value is read from this.values
Delta(s, nodes, pair) ==
  LET inboundNode == nodes[pair[1]]
      edge == inboundNode.adjacentEdges[pair[2]]
      target == OrDefault(s.targets, inboundNode.name, 0)
      oppositeMul == IF edge.isOpposite THEN -1 ELSE 1
  IN IF inboundNode.name \notin DOMAIN s.values
        \/ s.values[inboundNode.name] = NaN
     THEN NaN
     ELSE (s.values[inboundNode.name] - target) * s.edgeAlpha * oppositeMul

\* lines 63-70: newValue += delta over the inbound pairs, in
\* ten-thousandths
RECURSIVE AddDeltas(_, _, _, _)
AddDeltas(newValue, s, nodes, pairs) ==
  IF pairs = <<>> THEN newValue
  ELSE LET delta == Delta(s, nodes, Head(pairs))
       IN AddDeltas(IF newValue = NaN \/ delta = NaN THEN NaN
                    ELSE newValue + delta,
                    s, nodes, Tail(pairs))

HistoryPushReplacing(history, name, newValue) ==
  [history EXCEPT ![name] = <<newValue>>]

\* this.history[node.name].push(newValue), line 81
HistoryPush(history, name, newValue) ==
  [history EXCEPT ![name] = Append(@, newValue)]

\* lines 60-82 for the node at position p; s carries newValues and threw
RunNode(s, nodes, p, up) ==
  IF s.threw THEN s
  ELSE
    LET name == nodes[p].name
        inbound == findInboundAdjacentNodes(nodes, name)
        start == IF name \in DOMAIN s.newValues /\ s.newValues[name] # NaN
                 THEN 10 * s.newValues[name]
                 ELSE NaN
        sum == AddDeltas(start, s, nodes, inbound.out)
        newValue == ToFixed2(sum, up)
    IN IF inbound.threw THEN [s EXCEPT !.threw = TRUE]
       \* undefined.toFixed: no value for this node and no inbound pair
       ELSE IF name \notin DOMAIN s.newValues /\ inbound.out = <<>>
       THEN [s EXCEPT !.threw = TRUE]
       \* this.history[node.name] is undefined
       ELSE IF name \notin DOMAIN s.history
       THEN [s EXCEPT !.threw = TRUE]
       ELSE [s EXCEPT !.newValues[name] = newValue,
                      !.history = HistoryPush(@, name, newValue)]

RECURSIVE RunNodes(_, _, _, _)
RunNodes(s, nodes, p, ups) ==
  IF p > Len(nodes) THEN s
  ELSE RunNodes(RunNode(s, nodes, p, ups[p]), nodes, p + 1, ups)

runKeepingValues(sm, nodes, ups) ==
  LET s0 == [values |-> sm.values, newValues |-> sm.values,
             history |-> sm.history, targets |-> sm.targets,
             edgeAlpha |-> sm.edgeAlpha, threw |-> FALSE]
      s1 == RunNodes(s0, nodes, 1, ups)
  IN [threw |-> s1.threw,
      sim |-> [sm EXCEPT !.history = s1.history, !.runs = @ + 1]]

\* run(): this.values is replaced only when the loop ends without a throw
run(sm, nodes, ups) ==
  LET s0 == [values |-> sm.values, newValues |-> sm.values,
             history |-> sm.history, targets |-> sm.targets,
             edgeAlpha |-> sm.edgeAlpha, threw |-> FALSE]
      s1 == RunNodes(s0, nodes, 1, ups)
  IN [threw |-> s1.threw,
      sim |-> [sm EXCEPT !.history = s1.history,
                         !.values = IF s1.threw THEN @ ELSE s1.newValues,
                         !.runs = @ + 1]]

(***************************************************************************)
(* downsample and meanBetween (src/graph-simulator.js:153-189).  A mean is *)
(* kept as the exact pair of the sum and the number of elements.           *)
(***************************************************************************)
RECURSIVE SumBetween(_, _, _)
SumBetween(arr, startInd, endInd) ==
  IF endInd < startInd THEN 0
  ELSE arr[endInd + 1] + SumBetween(arr, startInd, endInd - 1)

\* indices are zero-based as in the code; both guards throw
meanBetween(arr, startInd, endInd) ==
  IF startInd < 0 \/ endInd < 0 \/ Len(arr) <= startInd \/ Len(arr) <= endInd
  THEN [threw |-> TRUE, sum |-> 0, count |-> 0]
  ELSE IF endInd <= startInd
  THEN [threw |-> TRUE, sum |-> 0, count |-> 0]
  ELSE [threw |-> FALSE, sum |-> SumBetween(arr, startInd, endInd),
        count |-> endInd - startInd + 1]

\* Math.floor(i * sampling) with sampling = arr.length / binCount
FloorOfSampling(arr, binCount, i) == (i * Len(arr)) \div binCount

RECURSIVE DownsampleBins(_, _, _, _)
DownsampleBins(arr, binCount, i, resampled) ==
  IF i >= binCount THEN [threw |-> FALSE, out |-> resampled]
  ELSE LET startInd == FloorOfSampling(arr, binCount, i)
           endInd == FloorOfSampling(arr, binCount, i + 1) - 1
           m == meanBetween(arr, startInd, endInd)
       IN IF m.threw THEN [threw |-> TRUE, out |-> <<>>]
          ELSE DownsampleBins(arr, binCount, i + 1,
                              Append(resampled,
                                     [sum |-> m.sum, count |-> m.count]))

downsample(arr, binCount) ==
  IF binCount > Len(arr) THEN [threw |-> TRUE, out |-> <<>>]
  ELSE DownsampleBins(arr, binCount, 0, <<>>)

(***************************************************************************)
(* Inputs of the graph lifecycle.                                          *)
(***************************************************************************)
Line(src, arrow, tgt) == src \o <<" ">> \o arrow \o <<" ">> \o tgt

LifecycleLines ==
  {Line(<<"A">>, <<"->">>, <<"B">>),
   Line(<<"A">>, <<"o", "->">>, <<"B">>),
   Line(<<"B">>, <<"->">>, <<"A">>),
   Line(<<"A">>, <<"->">>, <<"A">>),
   <<"A">>}

RECURSIVE SeqsUpTo(_, _)
SeqsUpTo(S, n) ==
  IF n = 0 THEN {<<>>}
  ELSE LET shorter == SeqsUpTo(S, n - 1)
       IN shorter \cup {Append(q, x) : q \in {r \in shorter : Len(r) = n - 1},
                                        x \in S}

LifecycleDescriptions == SeqsUpTo(LifecycleLines, MaxLines) \ {<<>>}

(***************************************************************************)
(* The state and the operations of the graph lifecycle.                    *)
(***************************************************************************)
NoLoops == [given |-> FALSE, threw |-> FALSE, cycles |-> <<>>, list |-> <<>>]

NoResult == [slot |-> 0, result |-> NoLoops]

NoSim == [exists |-> FALSE]

\* the options object {}: every option takes its default
NoConfig == [initialValues |-> EmptyObject, targets |-> EmptyObject,
             edgeAlpha |-> DEFAULT_EDGE_ALPHA]

NoAnswer == [op |-> "none"]

NoSample == [arr |-> <<>>, binCount |-> 0]

NoCall == [op |-> "none"]

Idle == [op |-> "none", slot |-> 0, other |-> 0, threw |-> FALSE]

Init ==
  /\ graphs = [s \in Slots |-> NoGraph]
  /\ nextId = 1
  /\ concats = 0
  /\ last = Idle
  /\ cgmlText = <<>>
  /\ otherText = <<>>
  /\ config = NoConfig
  /\ loops = NoResult
  /\ sim = NoSim
  /\ answer = NoAnswer
  /\ sample = NoSample
  /\ running = NoCall

\* g = parseCGML(cgml), or new CausalGraph(cgml), for a variable g not yet
\* assigned; it stays unassigned when the parse throws
ParseCGML(slot, cgml) ==
  /\ graphs[slot] = NoGraph
  /\ LET r == parseCGML(cgml, nextId)
     IN /\ nextId' = IF r.threw THEN nextId ELSE nextId + 1
        /\ graphs' = IF r.threw THEN graphs
                     ELSE [graphs EXCEPT ![slot] = r.graph]
        /\ last' = [op |-> "parseCGML", slot |-> slot, other |-> 0,
                    threw |-> r.threw]
  /\ UNCHANGED <<concats, cgmlText, otherText, config, loops, sim, answer,
                 sample, running>>

\* g = parseCGMLLine(line)
ParseCGMLLine(slot, line) ==
  /\ graphs[slot] = NoGraph
  /\ LET r == parseCGMLLine(line)
     IN /\ nextId' = IF r.threw THEN nextId ELSE nextId + 1
        /\ graphs' = IF r.threw THEN graphs
                     ELSE [graphs EXCEPT ![slot] =
                             [id |-> nextId, nodes |-> r.nodes]]
        /\ last' = [op |-> "parseCGMLLine", slot |-> slot, other |-> 0,
                    threw |-> r.threw]
  /\ UNCHANGED <<concats, cgmlText, otherText, config, loops, sim, answer,
                 sample, running>>

\* graphs[slot].concat(graphs[other]), two different objects; what the loop
\* did before a throw stays done
Concat(slot, other) ==
  /\ slot # other
  /\ graphs[slot] # NoGraph
  /\ graphs[other] # NoGraph
  /\ concats < MaxConcats
  /\ LET r == concat(graphs[slot].nodes, graphs[other].nodes)
     IN /\ graphs' = [graphs EXCEPT ![slot].nodes = r.nodes]
        /\ last' = [op |-> "concat", slot |-> slot, other |-> other,
                    threw |-> r.threw]
  /\ concats' = concats + 1
  /\ UNCHANGED <<nextId, cgmlText, otherText, config, loops, sim, answer,
                 sample, running>>

Next ==
  \/ \E slot \in Slots, lines \in LifecycleDescriptions :
        ParseCGML(slot, JoinLines(lines))
  \/ \E slot \in Slots, line \in LifecycleLines : ParseCGMLLine(slot, line)
  \/ \E slot \in Slots, other \in Slots : Concat(slot, other)

Spec == Init /\ [][Next]_vars

(***************************************************************************)
(* Loop analysis of a parsed graph.                                        *)
(***************************************************************************)
LoopNames == {<<"A">>, <<"B">>, <<"C">>}

LoopLines ==
  {Line(s, <<"->">>, t) : s \in LoopNames, t \in LoopNames}
    \cup {Line(<<"A">>, <<"o", "->">>, <<"B">>),
          Line(<<"B">>, <<"o", "->">>, <<"A">>),
          Line(<<"A">>, <<"o", "->">>, <<"A">>)}

LoopDescriptions == SeqsUpTo(LoopLines, MaxLoopLines) \ {<<>>}

\* loops = g.analyzeLoops(), which calls tarjanSCC(g.adjList)
AnalyzeLoops(slot) ==
  /\ graphs[slot] # NoGraph
  /\ LET r == analyzeLoops(graphs[slot].nodes)
     IN /\ loops' = [slot |-> slot, result |-> r]
        /\ last' = [op |-> "analyzeLoops", slot |-> slot, other |-> 0,
                    threw |-> r.threw]
  /\ UNCHANGED <<graphs, nextId, concats, cgmlText, otherText, config, sim,
                 answer, sample, running>>

NextLoops ==
  \/ \E lines \in LoopDescriptions : ParseCGML(1, JoinLines(lines))
  \/ AnalyzeLoops(1)

SpecLoops == Init /\ [][NextLoops]_vars

(***************************************************************************)
(* Parsing of one line with a chosen left operand.                         *)
(***************************************************************************)
LeftLexemes == {"A", "o", "-", " "}

PolarityLines ==
  {left \o <<"->", " ", "B">> : left \in SeqsUpTo(LeftLexemes, MaxLeftLen)}

InitPolarity ==
  /\ graphs = [s \in Slots |-> NoGraph]
  /\ nextId = 1
  /\ concats = 0
  /\ last = Idle
  /\ cgmlText \in PolarityLines
  /\ otherText = <<>>
  /\ config = NoConfig
  /\ loops = NoResult
  /\ sim = NoSim
  /\ answer = NoAnswer
  /\ sample = NoSample
  /\ running = NoCall

NextPolarity == ParseCGMLLine(1, cgmlText)

SpecPolarity == InitPolarity /\ [][NextPolarity]_vars

(***************************************************************************)
(* Causal graphs: three variables hold graphs built by new CausalGraph and *)
(* changed by CausalGraph.concat.                                          *)
(***************************************************************************)
GraphSlots == {1, 2, 3}

GraphDescriptions ==
  {<<Line(<<"A">>, <<"->">>, <<"B">>)>>,
   <<Line(<<"B">>, <<"->">>, <<"C">>)>>,
   <<Line(<<"C">>, <<"->">>, <<"D">>)>>,
   <<Line(<<"A">>, <<"->">>, <<"C">>), Line(<<"C">>, <<"->">>, <<"B">>)>>}

InitGraphs ==
  /\ graphs = [s \in GraphSlots |-> NoGraph]
  /\ nextId = 1
  /\ concats = 0
  /\ last = Idle
  /\ cgmlText = <<>>
  /\ otherText = <<>>
  /\ config = NoConfig
  /\ loops = NoResult
  /\ sim = NoSim
  /\ answer = NoAnswer
  /\ sample = NoSample
  /\ running = NoCall

NextGraphs ==
  \/ \E slot \in GraphSlots, lines \in GraphDescriptions :
        ParseCGML(slot, JoinLines(lines))
  \/ \E slot \in GraphSlots, other \in GraphSlots : Concat(slot, other)

SpecGraphs == InitGraphs /\ [][NextGraphs]_vars

(***************************************************************************)
(* Queries on graphs: the first two variables hold parsed descriptions,    *)
(* the third a parsed description or the graph of one parsed line.         *)
(***************************************************************************)
\* the descriptions each variable can be built from
QueryDescriptionsOf ==
  [slot \in GraphSlots |->
     IF slot = 1
     THEN {<<Line(<<"A">>, <<"->">>, <<"A">>)>>,
           <<Line(<<"A">>, <<"->">>, <<"B">>)>>}
     ELSE IF slot = 2
     THEN {<<Line(<<"B">>, <<"->">>, <<"A">>),
             Line(<<"C">>, <<"->">>, <<"B">>)>>}
     ELSE {<<Line(<<"A">>, <<"->">>, <<"D">>)>>}]

QueryLines == {Line(<<"A">>, <<"->">>, <<"D">>)}

QueryNames == {<<"A">>, <<"C">>, <<"D">>}

\* groups = graphs[slot].partitionSubgraphs()
PartitionSubgraphs(slot) ==
  /\ graphs[slot] # NoGraph
  /\ answer' = [op |-> "partitionSubgraphs", slot |-> slot,
                value |-> partitionSubgraphs(graphs[slot].nodes)]
  /\ last' = [op |-> "partitionSubgraphs", slot |-> slot, other |-> 0,
              threw |-> FALSE]
  /\ UNCHANGED <<graphs, nextId, concats, cgmlText, otherText, config, loops,
                 sim, sample, running>>

\* pairs = graphs[slot].findInboundAdjacentNodes(name)
FindInboundAdjacentNodes(slot, name) ==
  /\ graphs[slot] # NoGraph
  /\ LET r == findInboundAdjacentNodes(graphs[slot].nodes, name)
     IN /\ answer' = [op |-> "findInboundAdjacentNodes", slot |-> slot,
                      name |-> name, value |-> r.out]
        /\ last' = [op |-> "findInboundAdjacentNodes", slot |-> slot,
                    other |-> 0, threw |-> r.threw]
  /\ UNCHANGED <<graphs, nextId, concats, cgmlText, otherText, config, loops,
                 sim, sample, running>>

InitQueries == InitGraphs

NextQueries ==
  \/ \E slot \in GraphSlots :
        \E lines \in QueryDescriptionsOf[slot] :
           ParseCGML(slot, JoinLines(lines))
  \/ \E line \in QueryLines : ParseCGMLLine(3, line)
  \/ \E slot \in GraphSlots, other \in GraphSlots : Concat(slot, other)
  \/ \E slot \in GraphSlots : PartitionSubgraphs(slot)
  \/ \E slot \in GraphSlots, name \in QueryNames :
        FindInboundAdjacentNodes(slot, name)

SpecQueries == InitQueries /\ [][NextQueries]_vars

(***************************************************************************)
(* Loop analysis before and after merging a second parsed graph into the   *)
(* first.  Both descriptions are chosen initially.                         *)
(***************************************************************************)
ArrowChoices == {<<"->">>, <<"o", "->">>}

PF == <<"P", "F">>

AR == <<"A", "R">>

SG == <<"S", "G">>

SE == <<"S", "E">>

SI == <<"S", "I">>

MergeFirstTexts ==
  {JoinLines(<<Line(PF, a1, AR), Line(AR, a2, SG), Line(SG, a3, SE),
               Line(SE, a4, PF)>>) :
     a1 \in ArrowChoices, a2 \in ArrowChoices, a3 \in ArrowChoices,
     a4 \in ArrowChoices}

MergeSecondTexts ==
  {JoinLines(<<Line(AR, a1, SI), Line(SI, a2, PF)>>) :
     a1 \in ArrowChoices, a2 \in ArrowChoices}

InitMerge ==
  /\ graphs = [s \in Slots |-> NoGraph]
  /\ nextId = 1
  /\ concats = 0
  /\ last = Idle
  /\ cgmlText \in MergeFirstTexts
  /\ otherText \in MergeSecondTexts
  /\ config = NoConfig
  /\ loops = NoResult
  /\ sim = NoSim
  /\ answer = NoAnswer
  /\ sample = NoSample
  /\ running = NoCall

NextMerge ==
  \/ ParseCGML(1, cgmlText)
  \/ ParseCGML(2, otherText)
  \/ Concat(1, 2)
  \/ AnalyzeLoops(1)

SpecMerge == InitMerge /\ [][NextMerge]_vars

(***************************************************************************)
(* Simulation of a parsed graph.  The caller's description and options     *)
(* are chosen initially.                                                   *)
(***************************************************************************)
SimLines ==
  {Line(<<"A">>, <<"->">>, <<"B">>),
   Line(<<"B">>, <<"o", "->">>, <<"A">>),
   Line(<<"C">>, <<"->">>, <<"A">>),
   Line(<<"A">>, <<"->">>, <<"A">>)}

SimTexts ==
  {JoinLines(lines) : lines \in SeqsUpTo(SimLines, MaxSimLines) \ {<<>>}}

\* keys of the options: node names, a name of no node, and a name that
\* Object.prototype defines
SimKeys ==
  {<<"A">>, <<"B">>, <<"X">>,
   <<"c", "o", "n", "s", "t", "r", "u", "c", "t", "o", "r">>}

\* 0, 1.05 and 1.234
InitialValueChoices == {0, 1050, 1234}

\* 0.5
TargetChoices == {500}

\* 0.1 and 0.3
EdgeAlphaChoices == {DEFAULT_EDGE_ALPHA, 3}

ObjectsOver(keys, vals) ==
  {EmptyObject} \cup {[k \in {key} |-> val] : key \in keys, val \in vals}

SimConfigs ==
  [initialValues : ObjectsOver(SimKeys, InitialValueChoices),
   targets : ObjectsOver(SimKeys, TargetChoices),
   edgeAlpha : EdgeAlphaChoices]

InitSim ==
  /\ graphs = [s \in Slots |-> NoGraph]
  /\ nextId = 1
  /\ concats = 0
  /\ last = Idle
  /\ cgmlText \in SimTexts
  /\ otherText = <<>>
  /\ config \in SimConfigs
  /\ loops = NoResult
  /\ sim = NoSim
  /\ answer = NoAnswer
  /\ sample = NoSample
  /\ running = NoCall

\* sim = new GraphSimulatorSimple(g, config); no object when it throws
NewSimulator(slot) ==
  /\ graphs[slot] # NoGraph
  /\ ~sim.exists
  /\ LET r == GraphSimulatorSimple(slot, graphs[slot].nodes, config)
     IN /\ sim' = r.sim
        /\ last' = [op |-> "GraphSimulatorSimple", slot |-> slot,
                    other |-> 0, threw |-> r.threw]
  /\ UNCHANGED <<graphs, nextId, concats, cgmlText, otherText, config, loops,
                 answer, sample, running>>

\* sim.run(), for a simulator that has run fewer than maxRuns times
RunUpTo(maxRuns) ==
  /\ sim.exists
  /\ sim.runs < maxRuns
  /\ \E ups \in [1..Len(graphs[sim.graph].nodes) -> BOOLEAN] :
       LET r == run(sim, graphs[sim.graph].nodes, ups)
       IN /\ sim' = r.sim
          /\ last' = [op |-> "run", slot |-> sim.graph, other |-> 0,
                      threw |-> r.threw]
  /\ UNCHANGED <<graphs, nextId, concats, cgmlText, otherText, config, loops,
                 answer, sample, running>>

Run == RunUpTo(MaxRuns)

NextSim ==
  \/ ParseCGML(1, cgmlText)
  \/ NewSimulator(1)
  \/ Run

SpecSim == InitSim /\ [][NextSim]_vars

(***************************************************************************)
(* Simulation of the three-node loop A, B, C under chosen edge signs and   *)
(* options.                                                                *)
(***************************************************************************)
TraceNames == {<<"A">>, <<"B">>, <<"C">>}

TraceTexts ==
  {JoinLines(<<Line(<<"A">>, a1, <<"B">>), Line(<<"B">>, a2, <<"C">>),
               Line(<<"C">>, a3, <<"A">>)>>) :
     a1 \in ArrowChoices, a2 \in ArrowChoices, a3 \in ArrowChoices}

\* 1 and 2
TraceValueChoices == {DEFAULT_INITIAL_VALUE, 2000}

TraceConfigs ==
  [initialValues : ObjectsOver(TraceNames, TraceValueChoices),
   targets : {EmptyObject},
   edgeAlpha : EdgeAlphaChoices]

InitTrace ==
  /\ graphs = [s \in Slots |-> NoGraph]
  /\ nextId = 1
  /\ concats = 0
  /\ last = Idle
  /\ cgmlText \in TraceTexts
  /\ otherText = <<>>
  /\ config \in TraceConfigs
  /\ loops = NoResult
  /\ sim = NoSim
  /\ answer = NoAnswer
  /\ sample = NoSample
  /\ running = NoCall

NextTrace ==
  \/ ParseCGML(1, cgmlText)
  \/ NewSimulator(1)
  \/ RunUpTo(MaxTraceRuns)

SpecTrace == InitTrace /\ [][NextTrace]_vars

(***************************************************************************)
(* Parsing of a description chosen initially.                              *)
(***************************************************************************)
ParseLexemes == {"A", "->", "//", " "}

WellFormedLine == Line(<<"A">>, <<"->">>, <<"B">>)

ParseTexts ==
  {JoinLines(pre \o <<line>> \o post) :
     pre \in SeqsUpTo({WellFormedLine}, 1),
     line \in SeqsUpTo(ParseLexemes, MaxLineLen),
     post \in SeqsUpTo({WellFormedLine}, 1)}

InitParse ==
  /\ graphs = [s \in Slots |-> NoGraph]
  /\ nextId = 1
  /\ concats = 0
  /\ last = Idle
  /\ cgmlText \in ParseTexts
  /\ otherText = <<>>
  /\ config = NoConfig
  /\ loops = NoResult
  /\ sim = NoSim
  /\ answer = NoAnswer
  /\ sample = NoSample
  /\ running = NoCall

NextParse == ParseCGML(1, cgmlText)

SpecParse == InitParse /\ [][NextParse]_vars

(***************************************************************************)
(* Loop analysis of a parsed graph into which parsed one-line graphs are   *)
(* merged.  Both descriptions are chosen initially.                        *)
(***************************************************************************)
MergeLines ==
  {Line(<<"A">>, <<"->">>, <<"B">>),
   Line(<<"B">>, <<"->">>, <<"A">>),
   Line(<<"B">>, <<"o", "->">>, <<"C">>),
   Line(<<"C">>, <<"->">>, <<"A">>),
   Line(<<"A">>, <<"->">>, <<"A">>)}

InitMergeLoops ==
  /\ graphs = [s \in Slots |-> NoGraph]
  /\ nextId = 1
  /\ concats = 0
  /\ last = Idle
  /\ \E lines \in SeqsUpTo(MergeLines, MaxMergeLines) \ {<<>>} :
       cgmlText = JoinLines(lines)
  /\ otherText \in MergeLines
  /\ config = NoConfig
  /\ loops = NoResult
  /\ sim = NoSim
  /\ answer = NoAnswer
  /\ sample = NoSample
  /\ running = NoCall

NextMergeLoops ==
  \/ ParseCGML(1, cgmlText)
  \/ ParseCGML(2, otherText)
  \/ Concat(1, 2)
  \/ AnalyzeLoops(1)

SpecMergeLoops == InitMergeLoops /\ [][NextMergeLoops]_vars

(***************************************************************************)
(* Simulation of a graph that is merged with a second parsed graph, before *)
(* or after the simulator is constructed.  The simulator keeps a reference *)
(* to the graph, so it sees the nodes and edges that concat adds.          *)
(***************************************************************************)
SimConcatConfigs ==
  [initialValues : {EmptyObject}, targets : {EmptyObject},
   edgeAlpha : EdgeAlphaChoices]

InitSimConcat ==
  /\ graphs = [s \in Slots |-> NoGraph]
  /\ nextId = 1
  /\ concats = 0
  /\ last = Idle
  /\ cgmlText \in SimTexts
  /\ otherText \in SimLines
  /\ config \in SimConcatConfigs
  /\ loops = NoResult
  /\ sim = NoSim
  /\ answer = NoAnswer
  /\ sample = NoSample
  /\ running = NoCall

NextSimConcat ==
  \/ ParseCGML(1, cgmlText)
  \/ ParseCGML(2, otherText)
  \/ NewSimulator(1)
  \/ Concat(1, 2)
  \/ Run

SpecSimConcat == InitSimConcat /\ [][NextSimConcat]_vars

(***************************************************************************)
(* AdjacencyList.concat on objects.  Node and Edge objects live in two     *)
(* stores and are named by their position there; an AdjacencyList is the   *)
(* array of its Node objects, a Node's adjacentEdges the array of its Edge *)
(* objects.  A call runs one loop iteration per step, reading the arrays   *)
(* as they are at that moment, so self and other may be one object.        *)
(***************************************************************************)
\* a new Node object for the value node, with new Edge objects
NewNodeObject(r, node) ==
  LET first == Len(r.edges)
      obj == [name |-> node.name, label |-> node.label,
              adjacentEdges |-> [e \in 1..Len(node.adjacentEdges) |->
                                   first + e],
              subgraphs |-> node.subgraphs]
  IN [r |-> [r EXCEPT !.edges = @ \o node.adjacentEdges,
                      !.nodes = Append(@, obj)],
      ref |-> Len(r.nodes) + 1]

\* the value of the Node object at ref
ViewNode(r, ref) ==
  [name |-> r.nodes[ref].name, label |-> r.nodes[ref].label,
   adjacentEdges |-> [e \in 1..Len(r.nodes[ref].adjacentEdges) |->
                        r.edges[r.nodes[ref].adjacentEdges[e]]],
   subgraphs |-> r.nodes[ref].subgraphs]

\* the value of the AdjacencyList list
View(r, list) ==
  [p \in 1..Len(r.lists[list]) |-> ViewNode(r, r.lists[list][p])]

\* the same Node object is used again
ShareNodeObject(r, ref) == [r |-> r, ref |-> ref]

\* Node.clone, lines 161-168: a new Node with a clone of every Edge
CloneNodeObject(r, ref) == NewNodeObject(r, NodeClone(ViewNode(r, ref)))

\* lines 43-47: the clone of otherTarget with adjacentEdges = []
CloneTargetObject(r, ref) ==
  NewNodeObject(r, [NodeClone(ViewNode(r, ref)) EXCEPT !.adjacentEdges = <<>>])

\* thisSource.adjacentEdges.push(edge.clone()), line 58
PushEdgeClone(r, sourceRef, edgeRef) ==
  [r EXCEPT !.edges = Append(@, EdgeClone(r.edges[edgeRef])),
            !.nodes[sourceRef].adjacentEdges = Append(@, Len(r.edges) + 1)]

\* the Node object of list named name, 0 for null
findNodeObjectByName(r, list, name) ==
  LET p == findNodeByName(View(r, list), name)
  IN IF p = 0 THEN 0 ELSE r.lists[list][p]

\* lines 16-27: the head of the outer loop at index i of otherAL.nodes
ConcatOuterIteration(r) ==
  IF r.i > Len(r.lists[r.other]) THEN [r EXCEPT !.op = "returned"]
  ELSE
    LET otherSource == r.lists[r.other][r.i]
        thisSource == findNodeObjectByName(r, r.self,
                                           r.nodes[otherSource].name)
    IN IF thisSource = 0
       THEN LET c == CloneNodeObject(r, otherSource)
            IN [c.r EXCEPT !.lists[r.self] = Append(@, c.ref),
                           !.i = @ + 1]
       ELSE [r EXCEPT !.j = 1]

\* lines 28-59: the inner loop at index j of otherSource.adjacentEdges
ConcatInnerIteration(r) ==
  LET otherSource == r.lists[r.other][r.i]
      thisSource == findNodeObjectByName(r, r.self, r.nodes[otherSource].name)
      edges == r.nodes[otherSource].adjacentEdges
  IN IF r.j > Len(edges) THEN [r EXCEPT !.i = @ + 1, !.j = 0]
     ELSE
       LET edge == edges[r.j]
           otherTargetName == r.edges[edge].targetName
           otherTarget == findNodeObjectByName(r, r.other, otherTargetName)
           isPresent ==
             \E e \in 1..Len(r.nodes[thisSource].adjacentEdges) :
               EdgeNameProperty(r.edges[r.nodes[thisSource].adjacentEdges[e]])
                 = otherTargetName
           thisTarget == findNodeObjectByName(r, r.self, otherTargetName)
       IN IF isPresent THEN [r EXCEPT !.j = @ + 1]
          ELSE IF thisTarget = 0 /\ otherTarget = 0
          THEN [r EXCEPT !.op = "threw"]
          ELSE
            LET c == IF thisTarget = 0 THEN CloneTargetObject(r, otherTarget)
                     ELSE [r |-> r, ref |-> thisTarget]
                withTarget ==
                  IF thisTarget = 0
                  THEN [c.r EXCEPT !.lists[r.self] = Append(@, c.ref)]
                  ELSE r
            IN [PushEdgeClone(withTarget, thisSource, edge)
                  EXCEPT !.j = @ + 1]

ConcatIterationOf(r) ==
  IF r.j = 0 THEN ConcatOuterIteration(r) ELSE ConcatInnerIteration(r)

\* the descriptions the two lists are parsed from
ObjectLines ==
  {Line(<<"A">>, <<"->">>, <<"B">>),
   Line(<<"B">>, <<"o", "->">>, <<"A">>),
   Line(<<"B">>, <<"->">>, <<"C">>)}

ObjectDescriptions == SeqsUpTo(ObjectLines, MaxObjectLines) \ {<<>>}

Lists == {1, 2}

RECURSIVE NewNodeObjects(_, _, _)
NewNodeObjects(r, list, nodes) ==
  IF nodes = <<>> THEN r
  ELSE LET c == NewNodeObject(r, Head(nodes))
       IN NewNodeObjects([c.r EXCEPT !.lists[list] = Append(@, c.ref)],
                         list, Tail(nodes))

NoObjects ==
  [op |-> "idle", nodes |-> <<>>, edges |-> <<>>,
   lists |-> [l \in Lists |-> <<>>], self |-> 0, other |-> 0,
   i |-> 0, j |-> 0, calls |-> 0, before |-> <<>>, room |-> 0]

\* list 1 = parseCGML(first), list 2 = parseCGML(second)
InitObjects ==
  /\ graphs = [s \in Slots |-> NoGraph]
  /\ nextId = 1
  /\ concats = 0
  /\ last = Idle
  /\ cgmlText = <<>>
  /\ otherText = <<>>
  /\ config = NoConfig
  /\ loops = NoResult
  /\ sim = NoSim
  /\ answer = NoAnswer
  /\ sample = NoSample
  /\ \E first \in ObjectDescriptions, second \in ObjectDescriptions :
       running =
         NewNodeObjects(
           NewNodeObjects(NoObjects, 1,
                          parseCGML(JoinLines(first), 1).graph.nodes),
           2, parseCGML(JoinLines(second), 2).graph.nodes)

\* the Edge objects of list, node by node
RECURSIVE EdgesOfNodes(_, _)
EdgesOfNodes(r, refs) ==
  IF refs = <<>> THEN <<>>
  ELSE r.nodes[Head(refs)].adjacentEdges \o EdgesOfNodes(r, Tail(refs))

EdgesOfList(r, list) == EdgesOfNodes(r, r.lists[list])

\* self.concat(other) is called; self and other may be the same list.
\* before records the value of self at the call, room the number of Edge
\* objects that memory holds: MaxExtraEdges more than the call needs to
\* clone every edge other has when it is called
ConcatCall(self, other) ==
  /\ running.op \in {"idle", "returned", "threw"}
  /\ running.calls < MaxCalls
  /\ running' = [running EXCEPT !.op = "concat", !.self = self,
                                !.other = other, !.i = 1, !.j = 0,
                                !.calls = @ + 1,
                                !.before = View(running, self),
                                !.room = Len(running.edges)
                                         + Len(EdgesOfList(running, other))
                                         + MaxExtraEdges]
  /\ UNCHANGED <<graphs, nextId, concats, last, cgmlText, otherText, config,
                 loops, sim, answer, sample>>

\* the running call executes its next loop iteration; an iteration that
\* needs an Edge object when memory is full ends the program
ConcatIteration ==
  /\ running.op = "concat"
  /\ LET next == ConcatIterationOf(running)
     IN running' = IF Len(next.edges) > running.room
                   THEN [running EXCEPT !.op = "exhausted"]
                   ELSE next
  /\ UNCHANGED <<graphs, nextId, concats, last, cgmlText, otherText, config,
                 loops, sim, answer, sample>>

NextObjects ==
  \/ \E self \in Lists, other \in Lists : ConcatCall(self, other)
  \/ ConcatIteration

SpecObjects == InitObjects /\ [][NextObjects]_vars

\* a call that has started keeps running
SpecObjectsFair == SpecObjects /\ WF_vars(ConcatIteration)

(***************************************************************************)
(* Loop analysis of a parsed graph by src/causal-graph.js.                 *)
(***************************************************************************)
\* loops = g.analyzeLoops(); the call writes to the edges of g
AnalyzeLoopsAssigning(slot) ==
  /\ graphs[slot] # NoGraph
  /\ LET r == analyzeLoopsAssigning(graphs[slot].nodes)
     IN /\ graphs' = [graphs EXCEPT ![slot].nodes = r.nodes]
        /\ loops' = [slot |-> slot, result |-> r.result]
        /\ last' = [op |-> "analyzeLoops", slot |-> slot, other |-> 0,
                    threw |-> r.result.threw]
  /\ UNCHANGED <<nextId, concats, cgmlText, otherText, config, sim, answer,
                 sample, running>>

NextAssigning ==
  \/ \E lines \in LoopDescriptions : ParseCGML(1, JoinLines(lines))
  \/ AnalyzeLoopsAssigning(1)

SpecAssigning == Init /\ [][NextAssigning]_vars

(***************************************************************************)
(* Loop analysis of two descriptions that hold the same lines in two       *)
(* orders.  Both are chosen initially.                                     *)
(***************************************************************************)
OrderLines ==
  {Line(<<"A">>, <<"->">>, <<"B">>),
   Line(<<"A">>, <<"o", "->">>, <<"B">>),
   Line(<<"B">>, <<"->">>, <<"A">>),
   Line(<<"B">>, <<"o", "->">>, <<"C">>),
   Line(<<"C">>, <<"->">>, <<"A">>),
   Line(<<"A">>, <<"->">>, <<"A">>)}

Injections(n) ==
  {f \in [1..n -> 1..n] : \A i \in 1..n : \A j \in 1..n : f[i] = f[j] => i = j}

\* descriptions in which no line occurs twice
OrderDescriptions ==
  {lines \in SeqsUpTo(OrderLines, MaxOrderLines) \ {<<>>} :
     \A i \in 1..Len(lines) : \A j \in 1..Len(lines) :
       lines[i] = lines[j] => i = j}

InitOrder ==
  /\ graphs = [s \in Slots |-> NoGraph]
  /\ nextId = 1
  /\ concats = 0
  /\ last = Idle
  /\ \E lines \in OrderDescriptions : \E f \in Injections(Len(lines)) :
       /\ cgmlText = JoinLines(lines)
       /\ otherText = JoinLines([i \in 1..Len(lines) |-> lines[f[i]]])
  /\ config = NoConfig
  /\ loops = NoResult
  /\ sim = NoSim
  /\ answer = NoAnswer
  /\ sample = NoSample
  /\ running = NoCall

NextOrder ==
  \/ ParseCGML(1, cgmlText)
  \/ ParseCGML(2, otherText)
  \/ \E slot \in Slots : AnalyzeLoops(slot)

SpecOrder == InitOrder /\ [][NextOrder]_vars

(***************************************************************************)
(* Downsampling of an array chosen initially.                              *)
(***************************************************************************)
SampleValues == {1, 2, 4}

SampleArrays == SeqsUpTo(SampleValues, MaxArrayLen)

InitDownsample ==
  /\ graphs = [s \in Slots |-> NoGraph]
  /\ nextId = 1
  /\ concats = 0
  /\ last = Idle
  /\ cgmlText = <<>>
  /\ otherText = <<>>
  /\ config = NoConfig
  /\ loops = NoResult
  /\ sim = NoSim
  /\ answer = NoAnswer
  /\ running = NoCall
  /\ \E arr \in SampleArrays, binCount \in 1..(MaxArrayLen + 1) :
       sample = [arr |-> arr, binCount |-> binCount]

Downsample ==
  /\ answer = NoAnswer
  /\ LET r == downsample(sample.arr, sample.binCount)
     IN /\ answer' = [op |-> "downsample", threw |-> r.threw, out |-> r.out]
        /\ last' = [op |-> "downsample", slot |-> 0, other |-> 0,
                    threw |-> r.threw]
  /\ UNCHANGED <<graphs, nextId, concats, cgmlText, otherText, config, loops,
                 sim, sample, running>>

NextDownsample == Downsample

SpecDownsample == InitDownsample /\ [][NextDownsample]_vars

(***************************************************************************)
(* Properties of the graph lifecycle (Spec).                               *)
(***************************************************************************)
NodesOf(slot) == graphs[slot].nodes

\* C1: merging never duplicates an edge: in every graph built by parseCGML
\* and concat no node has two outgoing edges with the same targetName.
C1_NoDuplicateEdges ==
  \A slot \in Slots :
    \A n \in 1..Len(NodesOf(slot)) :
      LET edges == NodesOf(slot)[n].adjacentEdges
      IN \A i \in 1..Len(edges) : \A j \in 1..Len(edges) :
           edges[i].targetName = edges[j].targetName => i = j

\* C6: in every graph produced by parseCGMLLine, by parseCGML or by concat
\* calls on such graphs, no two nodes have the same name.
C6_UniqueNodeNames ==
  \A slot \in Slots :
    \A i \in 1..Len(NodesOf(slot)) : \A j \in 1..Len(NodesOf(slot)) :
      NodesOf(slot)[i].name = NodesOf(slot)[j].name => i = j

\* C7: after parsing and after any sequence of concat calls, every edge's
\* targetName is the name of a node of the same graph, and
\* adjacencyListToNumericGraph holds no index -1.
C7_EdgeTargetsResolve ==
  \A slot \in Slots :
    /\ \A n \in 1..Len(NodesOf(slot)) :
         \A e \in 1..Len(NodesOf(slot)[n].adjacentEdges) :
           \E m \in 1..Len(NodesOf(slot)) :
             NodesOf(slot)[m].name = NodesOf(slot)[n].adjacentEdges[e].targetName
    /\ LET num == adjacencyListToNumericGraph(NodesOf(slot))
       IN \A n \in 1..Len(num) : \A e \in 1..Len(num[n]) : num[n][e] # -1

\* a concat that returned and left in the destination a node taken from the
\* other graph, next to edges of the destination that point to it
C7_Witness ==
  /\ last.op = "concat"
  /\ ~last.threw
  /\ \E n \in 1..Len(NodesOf(last.slot)) :
       /\ NodesOf(last.slot)[n].subgraphs = <<graphs[last.other].id>>
       /\ \E m \in 1..Len(NodesOf(last.slot)) :
            /\ NodesOf(last.slot)[m].subgraphs = <<graphs[last.slot].id>>
            /\ \E e \in 1..Len(NodesOf(last.slot)[m].adjacentEdges) :
                 NodesOf(last.slot)[m].adjacentEdges[e].targetName =
                   NodesOf(last.slot)[n].name

(***************************************************************************)
(* Properties of the loop analysis (SpecLoops).                            *)
(***************************************************************************)
AnalysedNodes == graphs[loops.slot].nodes

\* the non-empty sequences of pairwise distinct node positions
DistinctSeqs(n) ==
  {q \in SeqsUpTo(1..n, n) :
     q # <<>> /\ \A i \in 1..Len(q) : \A j \in 1..Len(q) : q[i] = q[j] => i = j}

HasEdge(nodes, a, b) ==
  \E e \in 1..Len(nodes[a].adjacentEdges) :
    nodes[a].adjacentEdges[e].targetName = nodes[b].name

IsCycleOf(nodes, q) ==
  \A i \in 1..Len(q) : HasEdge(nodes, q[i], q[(i % Len(q)) + 1])

IsRotationOf(c, q) ==
  /\ Len(c) = Len(q)
  /\ \E r \in 0..(Len(q) - 1) :
       \A i \in 1..Len(q) : c[i] = q[((i - 1 + r) % Len(q)) + 1]

\* C2: tarjanSCC is complete: for every sequence of distinct nodes in which
\* each node has an edge to the next and the last to the first, the returned
\* list holds a rotation of that sequence.
C2_TarjanComplete ==
  loops.result.given =>
    \A q \in DistinctSeqs(Len(AnalysedNodes)) :
      IsCycleOf(AnalysedNodes, q) =>
        \E c \in 1..Len(loops.result.cycles) :
          IsRotationOf(loops.result.cycles[c], q)

\* a graph with a self-loop and a longer cycle through the same node
C2_Witness ==
  /\ loops.result.given
  /\ \E c \in 1..Len(loops.result.cycles) :
       \E d \in 1..Len(loops.result.cycles) :
         /\ Len(loops.result.cycles[c]) = 1
         /\ Len(loops.result.cycles[d]) >= 2
         /\ \E i \in 1..Len(loops.result.cycles[d]) :
              loops.result.cycles[d][i] = loops.result.cycles[c][1]

\* C3: tarjanSCC is sound: every returned cycle is a non-empty sequence of
\* pairwise distinct nodes of the graph, each with an edge to the next and
\* the last with an edge to the first; a graph with no cycle yields <<>>.
C3_TarjanSound ==
  loops.result.given =>
    /\ \A c \in 1..Len(loops.result.cycles) :
         loops.result.cycles[c] \in DistinctSeqs(Len(AnalysedNodes))
           /\ IsCycleOf(AnalysedNodes, loops.result.cycles[c])
    /\ (\A q \in DistinctSeqs(Len(AnalysedNodes)) :
          ~IsCycleOf(AnalysedNodes, q)) => loops.result.cycles = <<>>

\* a cycle through three nodes was returned
C3_Witness ==
  /\ loops.result.given
  /\ \E c \in 1..Len(loops.result.cycles) : Len(loops.result.cycles[c]) = 3

\* C22: tarjanSCC returns no elementary cycle twice: no two entries of the
\* returned list are rotations of one another, and every returned cycle
\* starts at the node of lowest index it visits, parallel edges included.
C22_NoCycleTwice ==
  loops.result.given =>
    /\ \A c \in 1..Len(loops.result.cycles) :
         \A d \in 1..Len(loops.result.cycles) :
           IsRotationOf(loops.result.cycles[c], loops.result.cycles[d])
             => c = d
    /\ \A c \in 1..Len(loops.result.cycles) :
         \A i \in 1..Len(loops.result.cycles[c]) :
           loops.result.cycles[c][1] <= loops.result.cycles[c][i]

\* a returned cycle that does not start at the first node of the graph and
\* one of whose steps is provided by two parallel edges
C22_Witness ==
  /\ loops.result.given
  /\ \E c \in 1..Len(loops.result.cycles) :
       LET q == loops.result.cycles[c]
       IN /\ q[1] >= 2
          /\ \E i \in 1..Len(q) :
               Cardinality(
                 {e \in 1..Len(AnalysedNodes[q[i]].adjacentEdges) :
                    AnalysedNodes[q[i]].adjacentEdges[e].targetName
                      = AnalysedNodes[q[(i % Len(q)) + 1]].name}) >= 2

OppositeCount(nodes, loop) ==
  Cardinality({i \in 1..Len(loop.edges) :
                 nodes[loop.nodes[i]].adjacentEdges[loop.edges[i]].isOpposite})

\* C4: a loop's type is BALANCING exactly when the number of its edges with
\* isOpposite = true is odd, and REINFORCING when it is even, zero included.
C4_LoopType ==
  \A l \in 1..Len(loops.result.list) :
    LET loop == loops.result.list[l]
    IN /\ loop.type = "BALANCING" <=>
            OppositeCount(AnalysedNodes, loop) % 2 = 1
       /\ loop.type = "REINFORCING" <=>
            OppositeCount(AnalysedNodes, loop) % 2 = 0

\* a loop with two opposite edges, and one with a single opposite edge
C4_Witness ==
  /\ \E l \in 1..Len(loops.result.list) :
       /\ OppositeCount(AnalysedNodes, loops.result.list[l]) = 2
       /\ loops.result.list[l].type = "REINFORCING"
  /\ \E l \in 1..Len(loops.result.list) :
       /\ OppositeCount(AnalysedNodes, loops.result.list[l]) = 1
       /\ loops.result.list[l].type = "BALANCING"

NamesOf(nodes) == {nodes[i].name : i \in 1..Len(nodes)}

\* the step is self.concat(other) with self = graphs[last'.slot] and
\* other = graphs[last'.other]
IsConcatStep == concats' = concats + 1

\* the nodes of self after the call that self did not have before
AddedNodes ==
  {i \in 1..Len(graphs'[last'.slot].nodes) :
     graphs'[last'.slot].nodes[i].name \notin NamesOf(graphs[last'.slot].nodes)}

\* C16 as stated: every node that self.concat(other) adds to self, as a
\* source or only as an edge target, has other's id as its one provenance
\* id, whatever other was built from.
C16_AddedTaggedWithOtherId ==
  [][IsConcatStep =>
       \A i \in AddedNodes :
         graphs'[last'.slot].nodes[i].subgraphs = <<graphs[last'.other].id>>
    ]_vars

\* C16 amended: every node that self.concat(other) adds to self has the
\* provenance list of the node of that name in other.
C16_AddedKeepProvenance ==
  [][IsConcatStep =>
       \A i \in AddedNodes :
         LET o == findNodeByName(graphs[last'.other].nodes,
                                 graphs'[last'.slot].nodes[i].name)
         IN /\ o # 0
            /\ graphs'[last'.slot].nodes[i].subgraphs =
                 graphs[last'.other].nodes[o].subgraphs
    ]_vars

\* a concat has given self a node tagged with other's id and a node that
\* other had from a third graph
C16_Witness ==
  /\ last.op = "concat"
  /\ ~last.threw
  /\ \E i \in 1..Len(graphs[last.slot].nodes) :
       graphs[last.slot].nodes[i].subgraphs = <<graphs[last.other].id>>
  /\ \E i \in 1..Len(graphs[last.slot].nodes) :
       LET ids == graphs[last.slot].nodes[i].subgraphs
       IN /\ ids # <<graphs[last.other].id>>
          /\ ids # <<graphs[last.slot].id>>
          /\ \E o \in 1..Len(graphs[last.other].nodes) :
               /\ graphs[last.other].nodes[o].name =
                    graphs[last.slot].nodes[i].name
               /\ graphs[last.other].nodes[o].subgraphs = ids

IsPrefixOf(a, b) == Len(a) <= Len(b) /\ SubSeq(b, 1, Len(a)) = a

\* C25: concat only appends: every node that self had before the call is at
\* the same index afterwards with the same name and label, and its old list
\* of edges is a prefix of its new one.
C25_ConcatAppends ==
  [][IsConcatStep =>
       LET old == graphs[last'.slot].nodes
           new == graphs'[last'.slot].nodes
       IN /\ Len(old) <= Len(new)
          /\ \A i \in 1..Len(old) :
               /\ new[i].name = old[i].name
               /\ new[i].label = old[i].label
               /\ IsPrefixOf(old[i].adjacentEdges, new[i].adjacentEdges)
    ]_vars

\* a concat has appended a node to self and an edge to one of self's own
\* nodes, which precedes the appended node
C25_Witness ==
  /\ last.op = "concat"
  /\ ~last.threw
  /\ \E i \in 1..Len(graphs[last.slot].nodes) :
       \E j \in 1..Len(graphs[last.slot].nodes) :
         /\ i < j
         /\ graphs[last.slot].nodes[i].subgraphs = <<graphs[last.slot].id>>
         /\ Len(graphs[last.slot].nodes[i].adjacentEdges) >= 2
         /\ graphs[last.slot].nodes[j].subgraphs # <<graphs[last.slot].id>>
         /\ \E e \in 1..Len(graphs[last.slot].nodes[i].adjacentEdges) :
              graphs[last.slot].nodes[i].adjacentEdges[e].targetName
                = graphs[last.slot].nodes[j].name

\* the (source, target) pairs of the edges of a node list
PairsOf(nodes) ==
  UNION {{<<nodes[i].name, nodes[i].adjacentEdges[e].targetName>> :
            e \in 1..Len(nodes[i].adjacentEdges)} : i \in 1..Len(nodes)}

NoDanglingEdges(nodes) ==
  \A pair \in PairsOf(nodes) : pair[2] \in NamesOf(nodes)

\* C27: when self and other are free of dangling edges, after
\* self.concat(other) the node names of self are the union of the names
\* self and other had, and its (source, target) edge pairs the union of
\* their pairs.
C27_ConcatUnion ==
  [][(/\ IsConcatStep
      /\ NoDanglingEdges(graphs[last'.slot].nodes)
      /\ NoDanglingEdges(graphs[last'.other].nodes))
     => /\ ~last'.threw
        /\ NamesOf(graphs'[last'.slot].nodes) =
             NamesOf(graphs[last'.slot].nodes)
               \cup NamesOf(graphs[last'.other].nodes)
        /\ PairsOf(graphs'[last'.slot].nodes) =
             PairsOf(graphs[last'.slot].nodes)
               \cup PairsOf(graphs[last'.other].nodes)
    ]_vars

\* after a concat self has names and pairs that other lacks, other's pairs,
\* and a node that came from other
C27_Witness ==
  /\ last.op = "concat"
  /\ ~last.threw
  /\ NoDanglingEdges(graphs[last.slot].nodes)
  /\ PairsOf(graphs[last.other].nodes) \subseteq PairsOf(graphs[last.slot].nodes)
  /\ PairsOf(graphs[last.slot].nodes) # PairsOf(graphs[last.other].nodes)
  /\ NamesOf(graphs[last.slot].nodes) # NamesOf(graphs[last.other].nodes)
  /\ \E i \in 1..Len(graphs[last.slot].nodes) :
       graphs[last.slot].nodes[i].subgraphs # <<graphs[last.slot].id>>

(***************************************************************************)
(* Properties of the queries (SpecQueries).                                *)
(***************************************************************************)
QueriedNodes == graphs[last.slot].nodes

\* the <<group, index>> places of the partition that hold node position p
PlacesOf(groups, p) ==
  {place \in (1..Len(groups)) \X (1..Len(QueriedNodes)) :
     /\ place[2] <= Len(groups[place[1]])
     /\ groups[place[1]][place[2]] = p}

\* C17: partitionSubgraphs returns a partition of the node list: every node
\* is in exactly one group, two nodes share a group exactly when their first
\* provenance ids are equal (nodes without provenance counting as equal),
\* groups are ordered by the position of their first node, and nodes keep
\* their order inside a group.
C17_Partition ==
  last.op = "partitionSubgraphs" =>
    LET groups == answer.value
        positions == 1..Len(QueriedNodes)
        groupOf(p) == (CHOOSE place \in PlacesOf(groups, p) : TRUE)[1]
    IN /\ \A p \in positions : Cardinality(PlacesOf(groups, p)) = 1
       /\ \A g \in 1..Len(groups) :
            /\ groups[g] # <<>>
            /\ \A i \in 1..Len(groups[g]) : groups[g][i] \in positions
            /\ \A i, j \in 1..Len(groups[g]) :
                 i < j => groups[g][i] < groups[g][j]
       /\ \A g, h \in 1..Len(groups) : g < h => groups[g][1] < groups[h][1]
       /\ \A p, q \in positions :
            (groupOf(p) = groupOf(q))
              <=> (SubgraphIdOf(QueriedNodes[p]) = SubgraphIdOf(QueriedNodes[q]))

\* a partition into three groups, one of which starts between two nodes of
\* another: the groups interleave in the node list
C17_Witness ==
  /\ last.op = "partitionSubgraphs"
  /\ Len(answer.value) = 3
  /\ \E g, h \in 1..Len(answer.value) :
       /\ g # h
       /\ Len(answer.value[g]) >= 2
       /\ answer.value[g][1] < answer.value[h][1]
       /\ answer.value[h][1] < answer.value[g][2]

\* every edge of the queried graph to the queried name, as <<node, edge>>
\* positions
EdgesTo(name) ==
  UNION {{<<p, e>> : e \in {f \in 1..Len(QueriedNodes[p].adjacentEdges) :
                              QueriedNodes[p].adjacentEdges[f].targetName
                                = name}} :
           p \in 1..Len(QueriedNodes)}

AnswerPairs == {answer.value[i] : i \in 1..Len(answer.value)}

\* C18: findInboundAdjacentNodes(name) throws exactly when no node of the
\* graph is named name, and returns the empty list for a node that no edge
\* points to.
C18_ThrowsIffAbsent ==
  last.op = "findInboundAdjacentNodes" =>
    /\ last.threw <=> answer.name \notin NamesOf(QueriedNodes)
    /\ (answer.name \in NamesOf(QueriedNodes) /\ EdgesTo(answer.name) = {})
         => answer.value = <<>>

\* the query for a name of no node has thrown, on a graph that has nodes
C18_Witness ==
  /\ last.op = "findInboundAdjacentNodes"
  /\ last.threw
  /\ Len(QueriedNodes) >= 3
  /\ answer.name \notin NamesOf(QueriedNodes)

\* C19 as stated: for an existing name the result holds exactly one entry
\* for each edge of the graph whose targetName is name, paired with the node
\* that owns the edge, and nothing else.
C19_AllInboundEdges ==
  (last.op = "findInboundAdjacentNodes" /\ ~last.threw) =>
    /\ AnswerPairs = EdgesTo(answer.name)
    /\ Len(answer.value) = Cardinality(EdgesTo(answer.name))

\* for every node other than the first node named name that has an edge to
\* name, that node with its first edge to name
FirstEdgesTo(name) ==
  {pair \in EdgesTo(name) :
     /\ pair[1] # findNodeByName(QueriedNodes, name)
     /\ \A other \in EdgesTo(name) :
          other[1] = pair[1] => pair[2] <= other[2]}

\* C19 amended: the result holds exactly one entry for each node, other
\* than the named node itself, that has an edge to name: that node paired
\* with its first edge to name, in node order, and nothing else.
C19_FirstInboundEdges ==
  (last.op = "findInboundAdjacentNodes" /\ ~last.threw) =>
    /\ AnswerPairs = FirstEdgesTo(answer.name)
    /\ Len(answer.value) = Cardinality(FirstEdgesTo(answer.name))
    /\ \A i, j \in 1..Len(answer.value) :
         i < j => answer.value[i][1] < answer.value[j][1]

\* a query answered with one pair although the graph holds three edges to
\* the name: one from the named node itself, two from one other node
C19_Witness ==
  /\ last.op = "findInboundAdjacentNodes"
  /\ ~last.threw
  /\ Len(answer.value) = 1
  /\ Cardinality(EdgesTo(answer.name)) = 3
  /\ \E pair \in EdgesTo(answer.name) :
       pair[1] = findNodeByName(QueriedNodes, answer.name)

(***************************************************************************)
(* Properties of the parsed line (SpecPolarity).                           *)
(***************************************************************************)
\* the text of the line before its arrow
LeftOperand == Split(cgmlText, "->")[1]

ParsedSource == graphs[1].nodes[1]

ParsedEdge == ParsedSource.adjacentEdges[1]

\* C20: the parsed edge is opposite exactly when the left operand ends with
\* 'o'; a final 'o' or a final '-' of the left operand is removed and is
\* not part of the source name, nothing else is removed besides surrounding
\* white space, and a final '-' leaves the polarity false.
C20_Polarity ==
  (last.op = "parseCGMLLine" /\ ~last.threw) =>
    LET left == LeftOperand
        final == IF left = <<>> THEN "" ELSE left[Len(left)]
        kept == IF final \in {"o", "-"} THEN SubSeq(left, 1, Len(left) - 1)
                ELSE left
    IN /\ ParsedEdge.isOpposite <=> final = "o"
       /\ ParsedSource.name = Trim(kept)
       /\ ParsedEdge.targetName = <<"B">>

\* the line "Ao o-> B": an opposite edge from a source whose own name ends
\* with 'o'
C20_Witness ==
  /\ last.op = "parseCGMLLine"
  /\ ~last.threw
  /\ ParsedEdge.isOpposite
  /\ ParsedSource.name = <<"A", "o">>
  /\ LeftOperand = <<"A", "o", " ", "o">>

(***************************************************************************)
(* Properties of the merge scenario (SpecMerge).                           *)
(***************************************************************************)
SchoolFundingText ==
  JoinLines(<<Line(PF, <<"->">>, AR), Line(AR, <<"->">>, SG),
              Line(SG, <<"->">>, SE), Line(SE, <<"o", "->">>, PF)>>)

SchoolInequalityText ==
  JoinLines(<<Line(AR, <<"->">>, SI), Line(SI, <<"o", "->">>, PF)>>)

LoopLengths == {Len(loops.result.list[l].nodes) : l \in DOMAIN loops.result.list}

AllBalancing ==
  \A l \in DOMAIN loops.result.list : loops.result.list[l].type = "BALANCING"

\* C13: the description PF -> AR, AR -> SG, SG -> SE, SE o-> PF has exactly
\* one loop, of length 4 and BALANCING; after one concat of the parsed
\* description AR -> SI, SI o-> PF into it the graph has 5 nodes and exactly
\* two loops, of lengths 4 and 3, both BALANCING.
C13_MergeScenario ==
  (/\ cgmlText = SchoolFundingText
   /\ otherText = SchoolInequalityText
   /\ last.op = "analyzeLoops")
  => /\ ~loops.result.threw
     /\ concats = 0 =>
          /\ Len(loops.result.list) = 1
          /\ LoopLengths = {4}
          /\ AllBalancing
     /\ concats = 1 =>
          /\ Len(graphs[1].nodes) = 5
          /\ Len(loops.result.list) = 2
          /\ LoopLengths = {3, 4}
          /\ AllBalancing

\* the loops of the merged graph of the scenario have been computed
C13_Witness ==
  /\ cgmlText = SchoolFundingText
  /\ otherText = SchoolInequalityText
  /\ last.op = "analyzeLoops"
  /\ concats = 1
  /\ Len(loops.result.list) = 2

(***************************************************************************)
(* Properties of the simulator (SpecSim).                                  *)
(***************************************************************************)
SimNodes == graphs[sim.graph].nodes

RECURSIVE SumOver(_, _)
\* the sum of term[x] for x in the domain S of term
SumOver(S, term) ==
  IF S = {} THEN 0
  ELSE LET x == CHOOSE y \in S : TRUE
       IN term[x] + SumOver(S \ {x}, term)

TargetOf(name) ==
  IF name \in DOMAIN sim.targets THEN sim.targets[name] ELSE 0

\* contribution, in ten-thousandths, of edge e of the node at position m, from
\* the values held after k - 1 runs
Contribution(m, e, k) ==
  (sim.history[SimNodes[m].name][k] - TargetOf(SimNodes[m].name))
    * sim.edgeAlpha
    * (IF SimNodes[m].adjacentEdges[e].isOpposite THEN -1 ELSE 1)

\* every edge of the graph whose target is the node at position n
AllInboundPairs(n) ==
  UNION {{<<p, e>> : e \in {f \in 1..Len(SimNodes[p].adjacentEdges) :
                              SimNodes[p].adjacentEdges[f].targetName
                                = SimNodes[n].name}} :
           p \in 1..Len(SimNodes)}

\* for every other node with an edge to the node at position n, its first
\* such edge
FirstInboundPairs(n) ==
  {pair \in AllInboundPairs(n) :
     /\ pair[1] # n
     /\ \A other \in AllInboundPairs(n) :
          other[1] = pair[1] => pair[2] <= other[2]}

\* h thousandths is x ten-thousandths rounded to two decimals
IsRounded(h, x) == h % 10 = 0 /\ 10 * h - x <= 50 /\ x - 10 * h <= 50

SynchronousOver(pairsOf(_)) ==
  sim.exists =>
    \A n \in 1..Len(SimNodes) :
      \A k \in 1..(Len(sim.history[SimNodes[n].name]) - 1) :
        IsRounded(sim.history[SimNodes[n].name][k + 1],
                  10 * sim.history[SimNodes[n].name][k]
                    + SumOver(pairsOf(n),
                              [pair \in pairsOf(n) |->
                                 Contribution(pair[1], pair[2], k)]))

InitialValueOf(name) ==
  IF name \in DOMAIN config.initialValues /\ config.initialValues[name] # 0
  THEN config.initialValues[name]
  ELSE DEFAULT_INITIAL_VALUE

NoInbound(n) == AllInboundPairs(n) = {}

\* C11 as stated: a node with no inbound edges keeps its initial value,
\* whatever that value is: values[n] and every element of history[n] equal
\* it after any number of run() calls.
C11_NoInboundConstant ==
  sim.exists =>
    \A n \in 1..Len(SimNodes) :
      NoInbound(n) =>
        LET name == SimNodes[n].name
        IN /\ sim.values[name] = InitialValueOf(name)
           /\ \A k \in 1..Len(sim.history[name]) :
                sim.history[name][k] = InitialValueOf(name)

\* C11 amended: for a node with no inbound edges every run() stores the
\* value it had at construction rounded to two decimals; values[n] and all
\* of history[n] equal the value at construction when that value has at most
\* two decimals.
C11_NoInboundRounded ==
  sim.exists =>
    \A n \in 1..Len(SimNodes) :
      NoInbound(n) =>
        LET name == SimNodes[n].name
            h == sim.history[name]
        IN /\ sim.values[name] = h[Len(h)]
           /\ \A k \in 2..Len(h) :
                /\ IsRounded(h[k], 10 * h[1])
                /\ h[1] % 10 = 0 => h[k] = h[1]

\* after two runs a node without inbound edges still holds its given
\* initial value 1.05 while the node it points to has changed twice
C11_Witness ==
  /\ sim.exists
  /\ sim.runs = 2
  /\ \E n \in 1..Len(SimNodes) :
       /\ NoInbound(n)
       /\ sim.history[SimNodes[n].name] = <<1050, 1050, 1050>>
       /\ \E m \in 1..Len(SimNodes) :
            LET h == sim.history[SimNodes[m].name]
            IN h[1] # h[2] /\ h[2] # h[3]

\* C12: right after construction values[n] and history[n][0] equal
\* initialValues[n] for every node n the options give an initial value, and
\* equal the default 1 for the other nodes only.
C12_InitialValues ==
  (sim.exists /\ sim.runs = 0) =>
    \A n \in 1..Len(SimNodes) :
      LET name == SimNodes[n].name
          given == IF name \in DOMAIN config.initialValues
                   THEN config.initialValues[name]
                   ELSE DEFAULT_INITIAL_VALUE
      IN /\ sim.values[name] = given
         /\ sim.history[name][1] = given

ReinforcingTriangleText ==
  JoinLines(<<Line(<<"A">>, <<"->">>, <<"B">>),
              Line(<<"B">>, <<"->">>, <<"C">>),
              Line(<<"C">>, <<"->">>, <<"A">>)>>)

\* 1.1, 1.21 and 1.33
ReinforcingTrace == <<1100, 1210, 1330>>

\* C14: on A -> B, B -> C, C -> A with edgeAlpha 0.1 and every initial value
\* 1, the values of A, B and C are all 1.1 after one run(), 1.21 after two
\* and 1.33 after three (1.331 rounded to two decimals).
C14_ReinforcingTrace ==
  (/\ sim.exists
   /\ cgmlText = ReinforcingTriangleText
   /\ config.edgeAlpha = DEFAULT_EDGE_ALPHA
   /\ config.targets = EmptyObject
   /\ \A k \in DOMAIN config.initialValues :
        config.initialValues[k] = DEFAULT_INITIAL_VALUE)
  => \A name \in TraceNames :
       /\ \A k \in 1..sim.runs :
            k <= 3 => sim.history[name][k + 1] = ReinforcingTrace[k]
       /\ (sim.runs >= 1 /\ sim.runs <= 3) =>
            sim.values[name] = ReinforcingTrace[sim.runs]

\* three runs of the loop with default options
C14_Witness ==
  /\ sim.exists
  /\ cgmlText = ReinforcingTriangleText
  /\ config = [initialValues |-> EmptyObject, targets |-> EmptyObject,
               edgeAlpha |-> DEFAULT_EDGE_ALPHA]
  /\ sim.runs = 3
  /\ sim.values[<<"A">>] = 1330

ConfigKeys == DOMAIN config.initialValues \cup DOMAIN config.targets

\* C10: constructing a simulator with a targets or initialValues key that
\* names no node of the graph throws, so no simulator exists then.
C10_UnknownKeyThrows ==
  LET names == {graphs[1].nodes[i].name : i \in 1..Len(graphs[1].nodes)}
      unknownKey == \E k \in ConfigKeys : k \notin names
  IN /\ (last.op = "GraphSimulatorSimple" /\ unknownKey) => last.threw
     /\ (graphs[1] # NoGraph /\ unknownKey) => ~sim.exists

(***************************************************************************)
(* Properties of the parser (SpecParse).                                   *)
(***************************************************************************)
TextLines == Split(cgmlText, "\n")

IsBlankLine(line) == Trim(line) = <<>>

IsCommentLine(line) == StartsWith(Trim(line), "//")

ArrowCount(text) == Cardinality({i \in 1..Len(text) : text[i] = "->"})

\* the part of a line before its first comment marker
BeforeComment(line) ==
  IF \E i \in 1..Len(line) : line[i] = "//"
  THEN SubSeq(line, 1,
              (CHOOSE i \in 1..Len(line) :
                 line[i] = "//" /\ \A j \in 1..(i - 1) : line[j] # "//") - 1)
  ELSE line

ParseFailed == last.threw /\ graphs[1] = NoGraph

\* C8 as stated: if a line that is neither blank nor a comment line holds
\* zero arrows or more than one arrow, parseCGML throws and returns no
\* graph, wherever the line stands.
C8_FailFastWholeLine ==
  (last.op = "parseCGML"
     /\ \E l \in 1..Len(TextLines) :
          /\ ~IsBlankLine(TextLines[l])
          /\ ~IsCommentLine(TextLines[l])
          /\ ArrowCount(TextLines[l]) # 1)
  => ParseFailed

\* C8 amended: the arrows counted are those before the first comment marker
\* of the line; arrows of the trailing label do not count.
C8_FailFast ==
  (last.op = "parseCGML"
     /\ \E l \in 1..Len(TextLines) :
          /\ ~IsBlankLine(TextLines[l])
          /\ ~IsCommentLine(TextLines[l])
          /\ ArrowCount(BeforeComment(TextLines[l])) # 1)
  => ParseFailed

\* the parse failed on a second line with two arrows before any comment
\* marker, after a well-formed first line
C8_Witness ==
  /\ last.op = "parseCGML"
  /\ ParseFailed
  /\ Len(TextLines) >= 2
  /\ TextLines[1] = WellFormedLine
  /\ ArrowCount(BeforeComment(TextLines[2])) = 2

(***************************************************************************)
(* Properties of downsample (SpecDownsample).                              *)
(***************************************************************************)
\* the elements with zero-based indices in [from, to)
BinIndices(arr, binCount, i) ==
  {k \in 0..(Len(arr) - 1) :
     /\ (i * Len(arr)) \div binCount <= k
     /\ k < ((i + 1) * Len(arr)) \div binCount}

RECURSIVE SumOfIndices(_, _)
SumOfIndices(arr, ks) ==
  IF ks = {} THEN 0
  ELSE LET k == CHOOSE x \in ks : TRUE
       IN arr[k + 1] + SumOfIndices(arr, ks \ {k})

\* C21: downsample returns exactly binCount values when
\* 1 <= binCount <= arr.length, the i-th being the mean of the elements with
\* indices in [floor(i*len/binCount), floor((i+1)*len/binCount)), and throws
\* when binCount > arr.length.
C21_Downsample ==
  answer.op = "downsample" =>
    LET arr == sample.arr
        binCount == sample.binCount
    IN /\ binCount > Len(arr) => answer.threw
       /\ binCount <= Len(arr) =>
            /\ ~answer.threw
            /\ Len(answer.out) = binCount
            /\ \A i \in 0..(binCount - 1) :
                 LET ks == BinIndices(arr, binCount, i)
                 IN /\ answer.out[i + 1].count = Cardinality(ks)
                    /\ answer.out[i + 1].sum = SumOfIndices(arr, ks)

(***************************************************************************)
(* Properties of the loop analysis of merged graphs (SpecMergeLoops).      *)
(***************************************************************************)
\* C23: for every loop that analyzeLoops returns on a graph built by parsing
\* and concat, edges has the length of nodes and edges[i] is an outgoing
\* edge of nodes[i] whose targetName is the name of nodes[(i+1) mod k];
\* 'Could not find edge' is never raised.
C23_LoopEdgesAligned ==
  last.op = "analyzeLoops" =>
    /\ ~loops.result.threw
    /\ \A l \in 1..Len(loops.result.list) :
         LET loop == loops.result.list[l]
             k == Len(loop.nodes)
         IN /\ Len(loop.edges) = k
            /\ \A i \in 1..k :
                 /\ loop.edges[i] \in
                      1..Len(AnalysedNodes[loop.nodes[i]].adjacentEdges)
                 /\ AnalysedNodes[loop.nodes[i]].adjacentEdges[loop.edges[i]]
                      .targetName
                    = AnalysedNodes[loop.nodes[(i % k) + 1]].name

\* after a concat, a loop of two or more nodes one of which has an earlier
\* edge that leaves the loop
C23_Witness ==
  /\ last.op = "analyzeLoops"
  /\ concats >= 1
  /\ \E l \in 1..Len(loops.result.list) :
       /\ Len(loops.result.list[l].nodes) >= 2
       /\ \E i \in 1..Len(loops.result.list[l].edges) :
            loops.result.list[l].edges[i] >= 2

(***************************************************************************)
(* Properties of the simulator of a merged graph (SpecSimConcat).          *)
(***************************************************************************)
IsRunStep == sim.exists /\ sim'.exists /\ sim'.runs = sim.runs + 1

RunNotStarted == sim'.values = sim.values /\ sim'.history = sim.history

RunComplete ==
  \A p \in 1..Len(graphs[sim.graph].nodes) :
    LET name == graphs[sim.graph].nodes[p].name
    IN /\ name \in DOMAIN sim.history
       /\ name \in DOMAIN sim'.history
       /\ name \in DOMAIN sim'.values
       /\ Len(sim'.history[name]) = Len(sim.history[name]) + 1
       /\ sim'.values[name] = sim'.history[name][Len(sim'.history[name])]

\* C24: every run() is complete-or-not-started: when it returns or throws,
\* either the value and the history of every node have advanced by exactly
\* one step or no value and no history has changed, also when the graph
\* gained nodes through concat after the simulator was constructed.
C24_RunAllOrNothing == [][IsRunStep => (RunComplete \/ RunNotStarted)]_vars

(***************************************************************************)
(* Properties of concat on objects (SpecObjects, SpecObjectsFair).         *)
(***************************************************************************)
NodeObjectsOf(r, list) == {r.lists[list][p] : p \in 1..Len(r.lists[list])}

EdgeObjectsOf(r, list) ==
  UNION {{r.nodes[ref].adjacentEdges[e] :
            e \in 1..Len(r.nodes[ref].adjacentEdges)} :
           ref \in NodeObjectsOf(r, list)}

NoSharedObjects(r) ==
  \A l1 \in Lists : \A l2 \in Lists \ {l1} :
    /\ NodeObjectsOf(r, l1) \cap NodeObjectsOf(r, l2) = {}
    /\ EdgeObjectsOf(r, l1) \cap EdgeObjectsOf(r, l2) = {}

\* a call between two different lists that has ended left self with the
\* value that concat computes from the values of self and other
ObjectsAgreeWithValues ==
  (running.op \in {"returned", "threw"} /\ running.self # running.other) =>
    LET c == concat(running.before, View(running, running.other))
    IN /\ c.nodes = View(running, running.self)
       /\ c.threw = (running.op = "threw")

\* a call between two different lists never runs out of memory
RoomForDifferentLists ==
  running.op = "exhausted" => running.self = running.other

\* C26: self.concat(other) leaves other's nodes, edges and provenance
\* unchanged and the two graphs share no Node and no Edge object, so that no
\* iteration of a later concat into self changes anything in other.
C26_OtherUntouched ==
  [][running.op = "concat" =>
       /\ NoSharedObjects(running')
       /\ \A l \in Lists \ {running.self} :
            /\ running'.lists[l] = running.lists[l]
            /\ View(running', l) = View(running, l)
    ]_vars

\* a second call into self has returned, and it has appended an edge to a
\* node that self had cloned from other in the first call
C26_Witness ==
  /\ running.op = "returned"
  /\ running.calls = 2
  /\ running.self # running.other
  /\ \E p \in 1..Len(running.before) :
       /\ running.before[p].subgraphs # <<running.self>>
       /\ Len(running.before[p].adjacentEdges)
            < Len(View(running, running.self)[p].adjacentEdges)

\* the inner loop of g.concat(g) never reaches the end of the array it
\* iterates
SelfConcatBehind ==
  (running.op = "concat" /\ running.self = running.other /\ running.j >= 1)
  => running.j <=
       Len(running.nodes[running.lists[running.other][running.i]]
             .adjacentEdges)

\* C28: concat terminates for every pair of finite graphs, g.concat(g)
\* included: every call that has started returns or throws, and does not
\* run until memory is exhausted.
C28_ConcatTerminates ==
  (running.op = "concat") ~> (running.op \in {"returned", "threw"})

(***************************************************************************)
(* Properties of the loop analysis of src/causal-graph.js (SpecAssigning). *)
(***************************************************************************)
\* C29: analyzeLoops of src/causal-graph.js only reads the graph: a call
\* leaves the nodes and edges as they were, and a second call returns the
\* same loops with the same types as the first.
C29_AnalyzeLoopsReadsOnly ==
  [][last'.op = "analyzeLoops" =>
       /\ graphs' = graphs
       /\ loops.result.given => loops'.result = loops.result
    ]_vars

(***************************************************************************)
(* Properties of the loop analysis of reordered descriptions (SpecOrder).  *)
(***************************************************************************)
\* no (source, target) pair occurs on more than one line
NoParallelEdges(nodes) ==
  \A i \in 1..Len(nodes) :
    \A e \in 1..Len(nodes[i].adjacentEdges) :
      \A d \in 1..Len(nodes[i].adjacentEdges) :
        nodes[i].adjacentEdges[e].targetName
          = nodes[i].adjacentEdges[d].targetName => e = d

\* a loop as the cycle of its node names
NameCycle(nodes, loop) ==
  [i \in 1..Len(loop.nodes) |-> nodes[loop.nodes[i]].name]

\* every loop of the first list is, up to rotation, a loop of the second
\* with the same type
LoopsAmong(nodes1, list1, nodes2, list2) ==
  \A l \in 1..Len(list1) :
    \E m \in 1..Len(list2) :
      /\ IsRotationOf(NameCycle(nodes1, list1[l]), NameCycle(nodes2, list2[m]))
      /\ list1[l].type = list2[m].type

\* the slot that was not analysed
OtherSlot == 3 - loops.slot

\* C30: for two descriptions made of the same lines in a different order, in
\* which no (source, target) pair occurs on more than one line, analyzeLoops
\* returns the same number of loops, and the loops agree as node-name cycles
\* up to rotation, each with the same type.
C30_LineOrderIndependent ==
  (/\ loops.result.given
   /\ graphs[OtherSlot] # NoGraph
   /\ NoParallelEdges(AnalysedNodes))
  => LET other == analyzeLoops(graphs[OtherSlot].nodes)
     IN /\ other.threw = loops.result.threw
        /\ Len(other.list) = Len(loops.result.list)
        /\ LoopsAmong(AnalysedNodes, loops.result.list,
                      graphs[OtherSlot].nodes, other.list)
        /\ LoopsAmong(graphs[OtherSlot].nodes, other.list,
                      AnalysedNodes, loops.result.list)

\* two orders of the same lines that number the nodes differently, with a
\* BALANCING and a REINFORCING loop
C30_Witness ==
  /\ loops.result.given
  /\ graphs[OtherSlot] # NoGraph
  /\ NoParallelEdges(AnalysedNodes)
  /\ \E i \in 1..Len(AnalysedNodes) :
       AnalysedNodes[i].name # graphs[OtherSlot].nodes[i].name
  /\ \E l \in 1..Len(loops.result.list) :
       loops.result.list[l].type = "BALANCING"
  /\ \E l \in 1..Len(loops.result.list) :
       loops.result.list[l].type = "REINFORCING"

====
